---- MODULE Spec2Model ----
(***************************************************************************)
(* Model of the GarminServerLess device-descriptor model and update /      *)
(* install reconciliation engine (src/GSL/device.py, update.py, app.py,    *)
(* ciq.py, filesystem.py).                                                 *)
(*                                                                         *)
(* Every public method of Device is one action that models the whole call, *)
(* including the calls it makes.  Remote endpoints are the environment:    *)
(* the catalog contents are state (fw_catalog, app_catalog) and each HTTP  *)
(* answer (status, body) is an input of the action.                        *)
(***************************************************************************)
EXTENDS Integers, Sequences, FiniteSets, TLC

\* ------------------------------------------------------------------------
\* Bounds of the model
\* ------------------------------------------------------------------------
MaxMajor == 2
MaxMinor == 1
MaxDiffCands == 1
MaxAppCands == 2
MaxAppVersion == 2
MaxOrder == 2

\* Python's None for optional integers and strings
NoneInt == -1
NoneStr == "None"

PartNumbers == {"006-B0001-00", "006-B0002-00"}

\* ------------------------------------------------------------------------
\* Sequence helpers
\* ------------------------------------------------------------------------
Range(s) == {s[i] : i \in 1..Len(s)}

SeqsUpTo(S, n) == UNION {[1..k -> S] : k \in 0..n}

\* list.pop(i) for a 0-based index i that is in range
RemoveAt(s, i) == [k \in 1..(Len(s) - 1) |-> IF k <= i THEN s[k] ELSE s[k + 1]]

RECURSIVE FlattenSeq(_)
FlattenSeq(ss) == IF Len(ss) = 0 THEN <<>> ELSE Head(ss) \o FlattenSeq(Tail(ss))

\* ------------------------------------------------------------------------
\* Version strings.  A numeric SoftwareVersion is the decimal string
\* "whole.cents" with two decimals (e.g. "2.01"); numeric = FALSE stands
\* for a string float() rejects.
\* ------------------------------------------------------------------------
VersionString(a, b) == [numeric |-> TRUE, whole |-> a, cents |-> b]

NotANumber == [numeric |-> FALSE, whole |-> 0, cents |-> 0]

NumericVersions == {VersionString(a, b) : a \in 0..MaxMajor, b \in 0..MaxMinor}

\* The decimal value of the string, as the pair the spec defines:
\* major = floor(v), minor = round(v * 100) % 100.
DecimalMajor(v) == v.whole

DecimalMinor(v) == v.cents

\* ------------------------------------------------------------------------
\* IEEE-754 binary64 arithmetic of int(float(s) * 100), computed exactly
\* with small integers.  For n = 100 * whole + cents >= 1:
\*   float(s) = RN(n / 100) has exponent j = floor(log2(n / 100)), so with
\*   k = 52 - j its significand is RN(n * 2^k / 100); the division leaves
\*   the remainder r = (n * 2^k) mod 100.  When r < 50 the quotient is
\*   rounded down and float(s) * 100 = n - r / 2^k exactly, which the
\*   product rounds to the double below n when r / 2^k exceeds half the
\*   spacing of the doubles below n; int() then yields n - 1.
\* ------------------------------------------------------------------------
RECURSIVE Pow2(_)
Pow2(k) == IF k <= 0 THEN 1 ELSE 2 * Pow2(k - 1)

RECURSIVE Pow2Mod100(_)
Pow2Mod100(k) == IF k <= 0 THEN 1 ELSE (2 * Pow2Mod100(k - 1)) % 100

\* floor(log2(n)) for n >= 1
RECURSIVE FloorLog2(_)
FloorLog2(n) == IF n < 2 THEN 0 ELSE 1 + FloorLog2(n \div 2)

\* floor(log2(n / 100)) for n >= 1 (negative when n < 100)
RECURSIVE FloorLog2Cents(_)
FloorLog2Cents(n) == IF n >= 100 THEN FloorLog2(n \div 100) ELSE FloorLog2Cents(2 * n) - 1

FloatTimes100(whole, cents) ==
    LET n == 100 * whole + cents
        j == FloorLog2Cents(n)
        m == FloorLog2(n)
        r == (n * Pow2Mod100(52 - j)) % 100
        isPow2 == Pow2(m) = n
        half == Pow2(IF isPow2 THEN m - j - 2 ELSE m - j - 1)
    IN  IF n = 0 THEN 0
        ELSE IF r = 0 \/ r >= 50 THEN n
        ELSE IF r > half THEN n - 1
        ELSE n

\* int(float(update_json["SoftwareVersion"]))
UpdateMajor(v) == v.whole

\* int(float(update_json["SoftwareVersion"]) * 100) % 100
UpdateMinor(v) == FloatTimes100(v.whole, v.cents) % 100

\* ------------------------------------------------------------------------
\* Downloaded contents and their MD5 digests (hashlib.md5(...).hexdigest())
\* ------------------------------------------------------------------------
Contents == {<<7>>, <<8>>, <<7, 8>>}

Md5Hex(content) ==
    CASE content = <<7>> -> "89e74e640b8c46257a29de0616794d5d"
      [] content = <<8>> -> "e2ba905bf306f46faca223d3cb20e2cf"
      [] content = <<7, 8>> -> "31540cf0b21cd8513d3dbc7192d8cad1"
      [] OTHER -> "d41d8cd98f00b204e9800998ecf8427e"

\* ------------------------------------------------------------------------
\* Paths are sequences of components; "/" and "\\" are separator components
\* ------------------------------------------------------------------------
DeviceRoot == <<"/", "mnt", "/", "garmin">>

XmlRelPath == <<"GARMIN", "/", "GarminDevice.xml">>

\* str.replace('\\', '/')
BackslashToSlash(path) == [i \in 1..Len(path) |-> IF path[i] = "\\" THEN "/" ELSE path[i]]

\* os.path.join(a, b): an absolute b discards a
PathJoin(a, b) ==
    IF Len(b) > 0 /\ b[1] = "/" THEN b
    ELSE IF Len(a) = 0 THEN b
    ELSE IF a[Len(a)] = "/" THEN a \o b
    ELSE a \o <<"/">> \o b

\* ------------------------------------------------------------------------
\* Update.Type and FirmwareUpdate (src/GSL/update.py)
\* ------------------------------------------------------------------------
UpdateTypeNames ==
    {"PrimaryFirmware", "Firmware", "Map", "Garage", "Computer", "LanguagePack",
     "ConnectItem", "Application", "SafetyCamera", "MarineChart", "GeneralDlc"}

\* Update.Type.get: raises on an unknown string
UpdateTypeGet(type_str) == [ok |-> type_str \in UpdateTypeNames, value |-> type_str]

\* FirmwareUpdate.__init__ as called by get_firmwares_updates: raises unless
\* the type is PrimaryFirmware or Firmware
FirmwareUpdateNew(update_json, major, minor) ==
    LET type == UpdateTypeGet(update_json.DataType)
    IN  [ok |-> type.ok /\ type.value \in {"PrimaryFirmware", "Firmware"},
         value |-> [url_is_relative |-> update_json.Url.IsRelative,
                    url |-> update_json.Url.Url,
                    unit_filepath |-> BackslashToSlash(update_json.FilePathOnUnit),
                    name |-> update_json.DisplayName,
                    md5 |-> update_json.Url.Md5,
                    size |-> update_json.Url.Size,
                    part_number |-> update_json.PartNumber,
                    major |-> major,
                    minor |-> minor,
                    update_type |-> update_json.DataType,
                    installation_order |-> update_json.InstallationOrder]]

\* ------------------------------------------------------------------------
\* Device state
\* ------------------------------------------------------------------------
VARIABLES
    xml_file,           \* content of GARMIN/GarminDevice.xml on the device
    xml_raw,            \* Device.xml_raw
    part_number,        \* Device.part_number
    max_nb_apps,        \* Device.max_nb_apps
    apps,               \* Device.apps
    firmware_versions,  \* Device.firmware_versions
    datatypes,          \* Device.datatypes
    firmwares_updates,  \* Device.firmwares_updates ([is_none, list])
    apps_updates,       \* Device.apps_updates ([is_none, list])
    files,              \* the device filesystem besides the manifest: path -> content
    fw_catalog,         \* candidates the firmware-update-check endpoint answers with
    app_catalog,        \* entries the app-update-check endpoint answers with
    last,               \* the last call: operation, arguments, outcome, requests made
    bridge              \* CIQ.download_app_settings in progress: position, Handler.done,
                        \* target path, requests served by the local server

vars == <<xml_file, xml_raw, part_number, max_nb_apps, apps, firmware_versions,
          datatypes, firmwares_updates, apps_updates, files, fw_catalog,
          app_catalog, last, bridge>>

deviceVars == <<xml_file, xml_raw, part_number, max_nb_apps, apps,
                firmware_versions, datatypes>>

NoneList == [is_none |-> TRUE, list |-> <<>>]

SomeList(l) == [is_none |-> FALSE, list |-> l]

\* an optional dict (App.has_settings): None, or a mapping
NoneDict == [is_none |-> TRUE, dict |-> << >>]

SomeDict(d) == [is_none |-> FALSE, dict |-> d]

\* truth value of an optional dict: None and {} are false
Truthy(d) == ~d.is_none /\ DOMAIN d.dict # {}

\* ------------------------------------------------------------------------
\* Device.__init__: parsing the manifest
\* ------------------------------------------------------------------------
AppTypeStrings == {"unknown", "watchface", "watchapp", "widget", "datafield", "musicapp", "activity"}

\* App.Type.get: raises on an unknown string
AppTypeGet(type_str) ==
    [ok |-> type_str \in AppTypeStrings,
     value |-> CASE type_str = "watchface" -> "WatchFace"
                 [] type_str = "watchapp" -> "WatchApp"
                 [] type_str = "widget" -> "Widget"
                 [] type_str = "datafield" -> "DataField"
                 [] type_str = "musicapp" -> "MusicApp"
                 [] type_str = "activity" -> "Activity"
                 [] OTHER -> "Unknown"]

\* dict([...]) keeps the last value of a repeated key
ParseFirmwareVersions(update_files) ==
    [p \in {update_files[i].PartNumber : i \in 1..Len(update_files)} |->
        LET last_i == CHOOSE i \in 1..Len(update_files) :
                        /\ update_files[i].PartNumber = p
                        /\ \A k \in (i + 1)..Len(update_files) : update_files[k].PartNumber # p
        IN  <<update_files[last_i].Major, update_files[last_i].Minor>>]

ParseApps(apps_xml) ==
    [i \in 1..Len(apps_xml) |->
        [name |-> apps_xml[i].AppName,
         guid |-> apps_xml[i].StoreId,
         version_int |-> apps_xml[i].Version,
         filename |-> apps_xml[i].FileName,
         type |-> AppTypeGet(apps_xml[i].AppType).value,
         version_guid |-> NoneStr,
         has_settings |-> NoneDict,
         compatible_devices_ids |-> NoneStr]]

ParseDatatypes(datatypes_xml) ==
    [n \in {datatypes_xml[i].Name : i \in 1..Len(datatypes_xml)} |->
        LET last_i == CHOOSE i \in 1..Len(datatypes_xml) :
                        /\ datatypes_xml[i].Name = n
                        /\ \A k \in (i + 1)..Len(datatypes_xml) : datatypes_xml[k].Name # n
        IN  datatypes_xml[last_i].Files]

\* open(self.xml_filepath, "r").read(): the text mode turns every line ending
\* "\r\n" of the file into "\n"; the text written back with open(..., "w")
\* has the line endings of the platform, "\n"
ReadText(file) ==
    IF "crlf" \in DOMAIN file THEN [f \in DOMAIN file \ {"crlf"} |-> file[f]] ELSE file

\* manifests Device.__init__ loads without raising
Loadable(manifest) ==
    \A i \in 1..Len(manifest.apps) : AppTypeGet(manifest.apps[i].AppType).ok

DeviceInit(manifest) ==
    /\ Loadable(manifest)
    /\ xml_file = manifest
    /\ xml_raw = ReadText(manifest)
    /\ part_number = manifest.model_part
    /\ max_nb_apps = manifest.max_apps
    /\ apps = ParseApps(manifest.apps)
    /\ firmware_versions = ParseFirmwareVersions(manifest.update_files)
    /\ datatypes = ParseDatatypes(manifest.datatypes)
    /\ firmwares_updates = NoneList
    /\ apps_updates = NoneList

\* ------------------------------------------------------------------------
\* The record of the last call
\* ------------------------------------------------------------------------
Returned(op, arg, net, wrote) ==
    [op |-> op, arg |-> arg, outcome |-> "returned", error |-> "", net |-> net, wrote |-> wrote]

Raised(op, arg, error, net, wrote) ==
    [op |-> op, arg |-> arg, outcome |-> "raised", error |-> error, net |-> net, wrote |-> wrote]

\* a call that has not come back: its thread is blocked inside the operation
Waiting(op, arg, net, wrote) ==
    [op |-> op, arg |-> arg, outcome |-> "waiting", error |-> "", net |-> net, wrote |-> wrote]

\* no call of CIQ.download_app_settings has been made
NoBridge ==
    [impl |-> "", pc |-> "idle", done |-> FALSE, output_path |-> <<>>, served |-> <<>>,
     error |-> ""]

NoCall == Returned("__init__", <<>>, <<>>, {})

\* ------------------------------------------------------------------------
\* Device.get_firmwares_updates
\* ------------------------------------------------------------------------
InstalledFirmware_AbsentAsZero(part, versions) ==
    IF part \in DOMAIN versions
    THEN [is_none |-> FALSE, major |-> versions[part][1], minor |-> versions[part][2]]
    ELSE [is_none |-> FALSE, major |-> 0, minor |-> 0]

InstalledFirmware(part, versions) ==
    IF part \in DOMAIN versions
    THEN [is_none |-> FALSE, major |-> versions[part][1], minor |-> versions[part][2]]
    ELSE [is_none |-> TRUE, major |-> 0, minor |-> 0]

IsNewerFirmware_NotStrict(update_major, update_minor, installed) ==
    \/ installed.is_none
    \/ update_major > installed.major
    \/ (update_major = installed.major /\ update_minor >= installed.minor)

\* the condition under which a candidate is added
IsNewerFirmware(update_major, update_minor, installed) ==
    \/ installed.is_none
    \/ update_major > installed.major
    \/ (update_major = installed.major /\ update_minor > installed.minor)

\* update_json[...]: a key the candidate does not hold raises KeyError
HasFields(update_json, fields) == fields \subseteq DOMAIN update_json

\* the keys the loop body of get_firmwares_updates reads
FirmwareCandidateFields ==
    {"SoftwareVersion", "PartNumber", "Url", "FilePathOnUnit", "DisplayName", "DataType",
     "InstallationOrder"}

\* the candidate makes the loop body raise, or cannot become a FirmwareUpdate
UnparsableFirmware(update_json) ==
    \/ ~HasFields(update_json, FirmwareCandidateFields)
    \/ ~update_json.SoftwareVersion.numeric
    \/ update_json.DataType \notin {"PrimaryFirmware", "Firmware"}

\* one pass of the loop body over a candidate: the updates it appends (none
\* when the candidate is installed already or raises while being parsed)
FirmwareDiffEntry(update_json, versions) ==
    IF ~HasFields(update_json, FirmwareCandidateFields) THEN <<>>
    ELSE IF ~update_json.SoftwareVersion.numeric THEN <<>>
    ELSE LET update_major == UpdateMajor(update_json.SoftwareVersion)
             update_minor == UpdateMinor(update_json.SoftwareVersion)
             installed == InstalledFirmware(update_json.PartNumber, versions)
             new == FirmwareUpdateNew(update_json, update_major, update_minor)
         IN  IF IsNewerFirmware(update_major, update_minor, installed) /\ new.ok
             THEN <<new.value>>
             ELSE <<>>

\* list.sort(key=installation_order): stable, ascending
RECURSIVE SortByInstallationOrder(_)
SortByInstallationOrder(updates) ==
    IF Len(updates) <= 1 THEN updates
    ELSE LET front == SortByInstallationOrder(SubSeq(updates, 1, Len(updates) - 1))
             u == updates[Len(updates)]
             k == Cardinality({i \in 1..Len(front) : front[i].installation_order <= u.installation_order})
         IN  SubSeq(front, 1, k) \o <<u>> \o SubSeq(front, k + 1, Len(front))

FirmwareDiff_FirstFailureEnds(catalog, versions) ==
    SortByInstallationOrder(
        FlattenSeq([i \in 1..Len(catalog) |->
                        IF \E k \in 1..i : UnparsableFirmware(catalog[k]) THEN <<>>
                        ELSE FirmwareDiffEntry(catalog[i], versions)]))

FirmwareDiff_Unsorted(catalog, versions) ==
    FlattenSeq([i \in 1..Len(catalog) |-> FirmwareDiffEntry(catalog[i], versions)])

FirmwareDiff(catalog, versions) ==
    SortByInstallationOrder(
        FlattenSeq([i \in 1..Len(catalog) |-> FirmwareDiffEntry(catalog[i], versions)]))

HttpStatuses == {200, 500}

FirmwareBodies == {"options", "not_json", "no_options"}

FirmwareCheckRequest == "POST SoftwareUpdateService/GetAllUnitSoftwareUpdates"

\* the Id element of the manifest text
DeviceId(raw) == IF "id" \in DOMAIN raw THEN raw.id ELSE "3900000000"

\* the element of that tag is written over several lines in the manifest text
SpansLines(raw, tag) == "spans" \in DOMAIN raw /\ tag \in raw.spans

ScrubbedId == "9999999999"

\* the copy of xml_raw sent as GarminDeviceXml: re.sub(r"<Model>.*?</Model>",
\* "", xml), the same for Extensions and DataType, and the Id replaced by
\* 9999999999. The patterns are compiled without re.DOTALL: "." matches no
\* line break, and an element written over several lines is left in the text
ScrubbedXml(raw) ==
    [model |-> IF SpansLines(raw, "Model") THEN <<raw.model_part>> ELSE <<>>,
     id |-> IF SpansLines(raw, "Id") THEN DeviceId(raw) ELSE ScrubbedId,
     update_files |-> raw.update_files,
     extensions |-> IF SpansLines(raw, "Extensions")
                    THEN <<[max_apps |-> raw.max_apps, apps |-> raw.apps]>> ELSE <<>>,
     datatypes |-> IF SpansLines(raw, "DataType") THEN raw.datatypes ELSE <<>>]

\* the record of a call with the JSON body it posted
WithBody(call, json) ==
    [op |-> call.op, arg |-> call.arg, outcome |-> call.outcome, error |-> call.error,
     net |-> call.net, wrote |-> call.wrote,
     json |-> IF call.net = <<>> THEN <<>> ELSE <<json>>]

GetFirmwaresUpdatesCall_NeverCached(cache, versions, catalog, force_reload, status, body) ==
    IF status # 200
    THEN [cache |-> cache, raised |-> TRUE,
          error |-> "Failed to get the firmware updates", net |-> <<FirmwareCheckRequest>>]
    ELSE [cache |-> SomeList(<<>>), raised |-> FALSE, error |-> "", net |-> <<FirmwareCheckRequest>>]

\* the call as a function of the cache and of the endpoint's answer:
\* the new cache, whether it raised, and the requests it made
GetFirmwaresUpdatesCall(cache, versions, catalog, force_reload, status, body) ==
    IF ~cache.is_none /\ ~force_reload
    THEN [cache |-> cache, raised |-> FALSE, error |-> "", net |-> <<>>]
    ELSE IF status # 200
    THEN [cache |-> cache, raised |-> TRUE,
          error |-> "Failed to get the firmware updates", net |-> <<FirmwareCheckRequest>>]
    ELSE IF body = "not_json"
    THEN [cache |-> cache, raised |-> TRUE,
          error |-> "Failed to parse the firmware updates response", net |-> <<FirmwareCheckRequest>>]
    ELSE IF body = "no_options"
    THEN [cache |-> SomeList(<<>>), raised |-> TRUE,
          error |-> "KeyError: SoftwareUpdateOptions", net |-> <<FirmwareCheckRequest>>]
    ELSE [cache |-> SomeList(FirmwareDiff(catalog, versions)), raised |-> FALSE,
          error |-> "", net |-> <<FirmwareCheckRequest>>]

get_firmwares_updates(force_reload, status, body) ==
    LET r == GetFirmwaresUpdatesCall(firmwares_updates, firmware_versions, fw_catalog,
                                     force_reload, status, body)
        arg == [force_reload |-> force_reload, status |-> status, body |-> body]
    IN  /\ firmwares_updates' = r.cache
        /\ last' = WithBody(IF r.raised
                            THEN Raised("get_firmwares_updates", arg, r.error, r.net, {})
                            ELSE Returned("get_firmwares_updates", arg, r.net, {}),
                            [GarminDeviceXml |-> ScrubbedXml(xml_raw)])
        /\ UNCHANGED <<deviceVars, apps_updates, files, fw_catalog, app_catalog, bridge>>

\* ------------------------------------------------------------------------
\* The firmware diff on its own: a device with one installed firmware part
\* of any version, a catalog of candidates of any version, part and type
\* ------------------------------------------------------------------------
\* every file of the catalog has its own download URL
DownloadUrl(part, version) == <<"https://download.garmin.com/", part, version>>

AbsoluteUrl(part, version) ==
    [IsRelative |-> FALSE, Url |-> DownloadUrl(part, version), Md5 |-> Md5Hex(<<7>>), Size |-> 1]

DefaultUnitPath == <<"GARMIN", "\\", "GUPDATE.GCD">>

DefaultDatatypesXml ==
    << [Name |-> "IQWatchFaces",
        Files |-> <<[Path |-> <<"GARMIN", "/", "APPS">>, TransferDirection |-> "InputToUnit", FileExtension |-> "PRG"]>>],
       [Name |-> "IQAppsSettingsFile",
        Files |-> <<[Path |-> <<"GARMIN", "/", "APPS", "/", "SETTINGS">>, TransferDirection |-> "InputToUnit", FileExtension |-> "SET"]>>] >>

FwDiffManifests ==
    {[model_part |-> "006-B9999-00", max_apps |-> 1,
      update_files |-> <<[PartNumber |-> "006-B0001-00", Major |-> M, Minor |-> N]>>,
      apps |-> <<>>, datatypes |-> DefaultDatatypesXml] :
        M \in 0..MaxMajor, N \in 0..MaxMinor}

FwDiffCandidates ==
    {[PartNumber |-> part, SoftwareVersion |-> version, DataType |-> type,
      InstallationOrder |-> 1, Url |-> AbsoluteUrl(part, version),
      DisplayName |-> "System Software", FilePathOnUnit |-> DefaultUnitPath] :
        part \in PartNumbers, version \in NumericVersions \cup {NotANumber},
        type \in {"Firmware", "Map"}}

InitFwDiff ==
    /\ \E manifest \in FwDiffManifests : DeviceInit(manifest)
    /\ fw_catalog \in SeqsUpTo(FwDiffCandidates, MaxDiffCands)
    /\ app_catalog = <<>>
    /\ files = << >>
    /\ last = NoCall
    /\ bridge = NoBridge

NextFwDiff ==
    \E force_reload \in BOOLEAN : get_firmwares_updates(force_reload, 200, "options")

SpecFwDiff == InitFwDiff /\ [][NextFwDiff]_vars

\* ------------------------------------------------------------------------
\* Device.get_apps_updates
\* ------------------------------------------------------------------------
\* App.Type.get_datatype_key: raises NotImplementedError for the other types
AppDatatypeKey(type) ==
    [ok |-> type \in {"WatchFace", "WatchApp", "Widget", "DataField"},
     value |-> CASE type = "WatchFace" -> "IQWatchFaces"
                 [] type = "WatchApp" -> "IQWatchApps"
                 [] type = "Widget" -> "IQWidgets"
                 [] type = "DataField" -> "IQDataFields"
                 [] OTHER -> ""]

\* self.datatypes[key].files with the check len(type_files) != 1; a missing
\* key raises KeyError
ResolveDatatype(key, table) ==
    IF key \notin DOMAIN table THEN [ok |-> FALSE, file |-> <<>>]
    ELSE IF Len(table[key]) # 1 THEN [ok |-> FALSE, file |-> <<>>]
    ELSE [ok |-> TRUE, file |-> table[key][1]]

InstalledAppFor_FirstWhenUnmatched(guid, installed) ==
    LET ids == {i \in 1..Len(installed) : installed[i].guid = guid}
    IN  IF ids = {}
        THEN [found |-> Len(installed) > 0, index |-> 1]
        ELSE [found |-> TRUE, index |-> CHOOSE i \in ids : \A k \in ids : i <= k]

\* [app for app in self.apps if app.guid == update_json["appId"]][0]:
\* the first installed app of that GUID, IndexError when there is none
InstalledAppFor(guid, installed) ==
    LET ids == {i \in 1..Len(installed) : installed[i].guid = guid}
    IN  IF ids = {}
        THEN [found |-> FALSE, index |-> 0]
        ELSE [found |-> TRUE, index |-> CHOOSE i \in ids : \A k \in ids : i <= k]

IsNewerApp_NotStrict(latest, installed_version) == latest >= installed_version

\* update_json["latestInternalVersionNumber"] > installed_app.version_int
IsNewerApp(latest, installed_version) == latest > installed_version

\* the keys the loop body of get_apps_updates reads
AppCandidateFields == {"type", "appId", "latestInternalVersionNumber", "name", "size"}

\* the entry makes the loop body raise before the installed app is looked up
UnparsableApp(update_json, table) ==
    \/ ~HasFields(update_json, AppCandidateFields)
    \/ ~AppTypeGet(update_json.type).ok
    \/ ~AppDatatypeKey(AppTypeGet(update_json.type).value).ok
    \/ ~ResolveDatatype(AppDatatypeKey(AppTypeGet(update_json.type).value).value, table).ok

\* one pass of the loop body over an entry: the updates it appends (none when
\* the entry is not newer or raises while being parsed)
AppDiffEntry(update_json, installed, table) ==
    LET app_type == AppTypeGet(update_json.type)
        key == AppDatatypeKey(app_type.value)
        loc == ResolveDatatype(key.value, table)
        match == InstalledAppFor(update_json.appId, installed)
    IN  IF ~HasFields(update_json, AppCandidateFields) THEN <<>>
        ELSE IF ~app_type.ok \/ ~key.ok \/ ~loc.ok \/ ~match.found THEN <<>>
        ELSE IF IsNewerApp(update_json.latestInternalVersionNumber,
                           installed[match.index].version_int)
        THEN << [app_guid |-> update_json.appId,
                 unit_filepath |-> PathJoin(loc.file.Path, <<installed[match.index].filename>>),
                 name |-> update_json.name,
                 size |-> update_json.size,
                 version_int |-> update_json.latestInternalVersionNumber] >>
        ELSE <<>>

AppDiff(catalog, installed, table) ==
    FlattenSeq([i \in 1..Len(catalog) |-> AppDiffEntry(catalog[i], installed, table)])

AppBodies == {"list", "not_json"}

AppCheckRequest == "POST express/appstore/rest/apps/updates"

\* the call as a function of the cache and of the endpoint's answer
GetAppsUpdatesCall(cache, installed, table, catalog, has_cookie, force_reload, status, body) ==
    IF ~cache.is_none /\ ~force_reload
    THEN [cache |-> cache, raised |-> FALSE, error |-> "", net |-> <<>>]
    ELSE IF ~has_cookie
    THEN [cache |-> cache, raised |-> TRUE,
          error |-> "A session cookie is required to get the app updates", net |-> <<>>]
    ELSE IF status # 200
    THEN [cache |-> cache, raised |-> TRUE,
          error |-> "Failed to get the app updates", net |-> <<AppCheckRequest>>]
    ELSE IF body = "not_json"
    THEN [cache |-> cache, raised |-> TRUE,
          error |-> "Failed to parse the app updates response", net |-> <<AppCheckRequest>>]
    ELSE [cache |-> SomeList(AppDiff(catalog, installed, table)), raised |-> FALSE,
          error |-> "", net |-> <<AppCheckRequest>>]

get_apps_updates(has_cookie, force_reload, status, body) ==
    LET r == GetAppsUpdatesCall(apps_updates, apps, datatypes, app_catalog,
                                has_cookie, force_reload, status, body)
        arg == [session_cookie |-> has_cookie, force_reload |-> force_reload,
                status |-> status, body |-> body]
    IN  /\ apps_updates' = r.cache
        /\ last' = IF r.raised THEN Raised("get_apps_updates", arg, r.error, r.net, {})
                   ELSE Returned("get_apps_updates", arg, r.net, {})
        /\ UNCHANGED <<deviceVars, firmwares_updates, files, fw_catalog, app_catalog, bridge>>

\* ------------------------------------------------------------------------
\* The app diff on its own: a device with one or two installed apps, a
\* catalog of entries for installed and other GUIDs, of resolvable and
\* unresolvable categories; every catalog item has its own display name
\* ------------------------------------------------------------------------
AppGuids == {"guid-a", "guid-b"}

OtherGuid == "guid-x"

InstalledAppXml(guid, version) ==
    [AppName |-> guid, StoreId |-> guid, AppType |-> "watchface", Version |-> version,
     FileName |-> guid]

\* IQWatchFaces resolves to one location, IQWidgets to two, IQDataFields to none
AppDiffDatatypesXml ==
    DefaultDatatypesXml \o
    << [Name |-> "IQWidgets",
        Files |-> <<[Path |-> <<"GARMIN", "/", "APPS">>, TransferDirection |-> "InputToUnit", FileExtension |-> "PRG"],
                    [Path |-> <<"GARMIN", "/", "APPS", "/", "TEMP">>, TransferDirection |-> "InputToUnit", FileExtension |-> "PRG"]>>] >>

AppDiffManifests ==
    {[model_part |-> "006-B9999-00", max_apps |-> 5,
      update_files |-> <<[PartNumber |-> "006-B0001-00", Major |-> 1, Minor |-> 0]>>,
      apps |-> installed, datatypes |-> AppDiffDatatypesXml] :
        installed \in {<<InstalledAppXml("guid-a", v)>> : v \in 1..MaxAppVersion}
                 \cup {<<InstalledAppXml("guid-a", v), InstalledAppXml("guid-b", 1)>> :
                            v \in 1..MaxAppVersion}}

AppDiffEntries ==
    {[appId |-> guid, type |-> type, latestInternalVersionNumber |-> v,
      name |-> <<guid, type>>, size |-> 1] :
        guid \in AppGuids \cup {OtherGuid}, type \in {"watchface", "widget"},
        v \in 1..MaxAppVersion}

InitAppDiff ==
    /\ \E manifest \in AppDiffManifests : DeviceInit(manifest)
    /\ fw_catalog = <<>>
    /\ app_catalog \in SeqsUpTo(AppDiffEntries, MaxAppCands)
    /\ files = << >>
    /\ last = NoCall
    /\ bridge = NoBridge

NextAppDiff ==
    \E force_reload \in BOOLEAN : get_apps_updates(TRUE, force_reload, 200, "list")

SpecAppDiff == InitAppDiff /\ [][NextAppDiff]_vars

\* ------------------------------------------------------------------------
\* Catalogs with candidates that cannot be parsed (SpecCandidates): a device
\* with one firmware part at (1, 0) and the apps guid-a and guid-b at version
\* 1; catalogs of up to MaxCatalog candidates, well-formed ones and ones
\* with a missing key, a version that is not a number, an unknown type, a
\* type that is not a firmware, a category with two or with no location
\* ------------------------------------------------------------------------
MaxCatalog == 2

CandidateManifest ==
    [model_part |-> "006-B9999-00", max_apps |-> 5,
     update_files |-> <<[PartNumber |-> "006-B0001-00", Major |-> 1, Minor |-> 0]>>,
     apps |-> <<InstalledAppXml("guid-a", 1), InstalledAppXml("guid-b", 1)>>,
     datatypes |-> AppDiffDatatypesXml]

FirmwareCandidate(part, version, type, order) ==
    [PartNumber |-> part, SoftwareVersion |-> version, DataType |-> type,
     InstallationOrder |-> order, Url |-> AbsoluteUrl(part, version),
     DisplayName |-> part, FilePathOnUnit |-> DefaultUnitPath]

ParsableFirmwareCandidates ==
    {FirmwareCandidate("006-B0001-00", VersionString(1, 1), "Firmware", 2),
     FirmwareCandidate("006-B0001-00", VersionString(1, 0), "Firmware", 1),
     FirmwareCandidate("006-B0002-00", VersionString(1, 0), "PrimaryFirmware", 1)}

\* a candidate without Url, FilePathOnUnit, DisplayName, InstallationOrder
TruncatedFirmwareCandidate ==
    [PartNumber |-> "006-B0002-00", SoftwareVersion |-> VersionString(1, 1),
     DataType |-> "Firmware"]

UnparsableFirmwareCandidates ==
    {TruncatedFirmwareCandidate,
     FirmwareCandidate("006-B0002-00", NotANumber, "Firmware", 1),
     FirmwareCandidate("006-B0002-00", VersionString(1, 1), "Bogus", 1),
     FirmwareCandidate("006-B0002-00", VersionString(1, 1), "Map", 1)}

AppCandidate(guid, type, version) ==
    [appId |-> guid, type |-> type, latestInternalVersionNumber |-> version,
     name |-> <<guid, type>>, size |-> 1]

ParsableAppCandidates ==
    {AppCandidate("guid-a", "watchface", 2), AppCandidate("guid-a", "watchface", 1),
     AppCandidate("guid-b", "watchface", 2)}

\* an entry without latestInternalVersionNumber, name, size
TruncatedAppCandidate == [appId |-> "guid-b", type |-> "watchface"]

\* two locations (widget), no location (datafield), a category without
\* datatype key (musicapp), an unknown category
UnparsableAppCandidates ==
    {TruncatedAppCandidate} \cup
    {AppCandidate("guid-b", type, 2) : type \in {"widget", "datafield", "musicapp", "bogus"}}

FirmwareCatalogs == SeqsUpTo(ParsableFirmwareCandidates \cup UnparsableFirmwareCandidates, MaxCatalog)

AppCatalogs == SeqsUpTo(ParsableAppCandidates \cup UnparsableAppCandidates, MaxCatalog)

\* a candidate that cannot be parsed, followed by a newer one that can
MixedFirmwareCatalog ==
    <<TruncatedFirmwareCandidate,
      FirmwareCandidate("006-B0001-00", VersionString(1, 1), "Firmware", 2)>>

MixedAppCatalog == <<AppCandidate("guid-b", "widget", 2), AppCandidate("guid-a", "watchface", 2)>>

\* one of the two catalogs is any catalog, the other is empty or the mixed one
InitCandidates ==
    /\ DeviceInit(CandidateManifest)
    /\ fw_catalog \in FirmwareCatalogs
    /\ app_catalog \in AppCatalogs
    /\ \/ fw_catalog \in {<<>>, MixedFirmwareCatalog}
       \/ app_catalog \in {<<>>, MixedAppCatalog}
    /\ files = << >>
    /\ last = NoCall
    /\ bridge = NoBridge

NextCandidates ==
    \/ \E force_reload \in BOOLEAN : get_firmwares_updates(force_reload, 200, "options")
    \/ \E force_reload \in BOOLEAN : get_apps_updates(TRUE, force_reload, 200, "list")

SpecCandidates == InitCandidates /\ [][NextCandidates]_vars

\* ------------------------------------------------------------------------
\* The two pulls and their caches (SpecPulls): the device of SpecCandidates;
\* between two pulls the vendor may publish other catalogs, and an endpoint
\* may answer with an error
\* ------------------------------------------------------------------------
PulledFirmwareCatalogs == {<<>>} \cup {<<c>> : c \in ParsableFirmwareCandidates}

PulledAppCatalogs == {<<>>} \cup {<<c>> : c \in ParsableAppCandidates}

\* what the two update-check endpoints answer changes
vendor_publishes(firmwares, applications) ==
    /\ <<firmwares, applications>> # <<fw_catalog, app_catalog>>
    /\ fw_catalog' = firmwares
    /\ app_catalog' = applications
    /\ UNCHANGED <<deviceVars, firmwares_updates, apps_updates, files, last, bridge>>

InitPulls ==
    /\ DeviceInit(CandidateManifest)
    /\ fw_catalog \in PulledFirmwareCatalogs
    /\ app_catalog \in PulledAppCatalogs
    /\ files = << >>
    /\ last = NoCall
    /\ bridge = NoBridge

NextPulls ==
    \/ \E force_reload \in BOOLEAN, status \in HttpStatuses :
            get_firmwares_updates(force_reload, status, "options")
    \/ \E force_reload \in BOOLEAN, status \in HttpStatuses :
            get_apps_updates(TRUE, force_reload, status, "list")
    \/ \E firmwares \in PulledFirmwareCatalogs, applications \in PulledAppCatalogs :
            vendor_publishes(firmwares, applications)

SpecPulls == InitPulls /\ [][NextPulls]_vars

\* ------------------------------------------------------------------------
\* The pulls that fail (SpecFailedPulls): the pulls of SpecPulls, answered
\* with any status and any body, the app pull with or without a cookie
\* ------------------------------------------------------------------------
NextFailedPulls ==
    \/ \E force_reload \in BOOLEAN, status \in HttpStatuses, body \in FirmwareBodies :
            get_firmwares_updates(force_reload, status, body)
    \/ \E has_cookie \in BOOLEAN, force_reload \in BOOLEAN, status \in HttpStatuses,
          body \in AppBodies :
            get_apps_updates(has_cookie, force_reload, status, body)
    \/ \E firmwares \in PulledFirmwareCatalogs, applications \in PulledAppCatalogs :
            vendor_publishes(firmwares, applications)

SpecFailedPulls == InitPulls /\ [][NextFailedPulls]_vars

\* ------------------------------------------------------------------------
\* The manifest sent to the firmware-update-check endpoint (SpecScrub): the
\* device of SpecCandidates with one of two device Ids, its manifest written
\* on one line or with any of the Model, Id, Extensions and DataType
\* elements over several lines
\* ------------------------------------------------------------------------
DeviceIds == {"3900000001", "3900000002"}

ScrubbedTags == {"Model", "Id", "Extensions", "DataType"}

ScrubManifest(id, spans) ==
    [model_part |-> CandidateManifest.model_part, id |-> id,
     max_apps |-> CandidateManifest.max_apps, update_files |-> CandidateManifest.update_files,
     apps |-> CandidateManifest.apps, datatypes |-> CandidateManifest.datatypes,
     spans |-> spans]

InitScrub ==
    /\ \E id \in DeviceIds, spans \in SUBSET ScrubbedTags : DeviceInit(ScrubManifest(id, spans))
    /\ fw_catalog \in PulledFirmwareCatalogs
    /\ app_catalog = <<>>
    /\ files = << >>
    /\ last = NoCall
    /\ bridge = NoBridge

NextScrub ==
    \E force_reload \in BOOLEAN, status \in HttpStatuses :
        get_firmwares_updates(force_reload, status, "options")

SpecScrub == InitScrub /\ [][NextScrub]_vars

\* ------------------------------------------------------------------------
\* FirmwareUpdate.process (src/GSL/update.py)
\* ------------------------------------------------------------------------
\* open(path, "wb").write(content): creates or overwrites the file
WriteFile(fs, path, content) ==
    [p \in DOMAIN fs \cup {path} |-> IF p = path THEN content ELSE fs[p]]

RelativeUrlError == "Relative URLs are not supported for firmware updates"

FirmwareDownloadError == "Failed to download the firmware update"

SizeMismatchError == "Failed to download the firmware update: size does not match"

Md5MismatchError == "Failed to download the firmware update: MD5 does not match"

FirmwareGet(url) == <<"GET", url>>

FirmwareProcess_DownloadFirst(update, device_rootpath, status, content, fs) ==
    LET filepath == PathJoin(device_rootpath, update.unit_filepath)
        none == [raised |-> TRUE, error |-> "", net |-> <<FirmwareGet(update.url)>>, files |-> fs,
                 wrote |-> {}, path |-> <<>>]
    IN  IF status # 200 THEN [none EXCEPT !.error = FirmwareDownloadError]
        ELSE IF update.url_is_relative THEN [none EXCEPT !.error = RelativeUrlError]
        ELSE IF update.size # NoneInt /\ update.size # Len(content)
        THEN [none EXCEPT !.error = SizeMismatchError]
        ELSE IF update.md5 # NoneStr /\ update.md5 # Md5Hex(content)
        THEN [none EXCEPT !.error = Md5MismatchError]
        ELSE [raised |-> FALSE, error |-> "", net |-> <<FirmwareGet(update.url)>>,
              files |-> WriteFile(fs, filepath, content), wrote |-> {filepath}, path |-> filepath]

FirmwareProcess_WriteFirst(update, device_rootpath, status, content, fs) ==
    LET filepath == PathJoin(device_rootpath, update.unit_filepath)
        none == [raised |-> TRUE, error |-> "", net |-> <<FirmwareGet(update.url)>>, files |-> fs,
                 wrote |-> {}, path |-> <<>>]
        written == [none EXCEPT !.files = WriteFile(fs, filepath, content), !.wrote = {filepath}]
    IN  IF update.url_is_relative THEN [none EXCEPT !.error = RelativeUrlError, !.net = <<>>]
        ELSE IF status # 200 THEN [none EXCEPT !.error = FirmwareDownloadError]
        ELSE IF update.size # NoneInt /\ update.size # Len(content)
        THEN [written EXCEPT !.error = SizeMismatchError]
        ELSE IF update.md5 # NoneStr /\ update.md5 # Md5Hex(content)
        THEN [written EXCEPT !.error = Md5MismatchError]
        ELSE [written EXCEPT !.raised = FALSE, !.path = filepath]

\* the call as a function of the answer (status, content) of the download
\* endpoint and of the filesystem: whether it raised, the requests it made,
\* the filesystem it leaves and the path it returns
FirmwareProcess(update, device_rootpath, status, content, fs) ==
    LET filepath == PathJoin(device_rootpath, update.unit_filepath)
        none == [raised |-> TRUE, error |-> "", net |-> <<FirmwareGet(update.url)>>, files |-> fs,
                 wrote |-> {}, path |-> <<>>]
    IN  IF update.url_is_relative THEN [none EXCEPT !.error = RelativeUrlError, !.net = <<>>]
        ELSE IF status # 200 THEN [none EXCEPT !.error = FirmwareDownloadError]
        ELSE IF update.size # NoneInt /\ update.size # Len(content)
        THEN [none EXCEPT !.error = SizeMismatchError]
        ELSE IF update.md5 # NoneStr /\ update.md5 # Md5Hex(content)
        THEN [none EXCEPT !.error = Md5MismatchError]
        ELSE [raised |-> FALSE, error |-> "", net |-> <<FirmwareGet(update.url)>>,
              files |-> WriteFile(fs, filepath, content), wrote |-> {filepath}, path |-> filepath]

\* a caller's direct use: device.get_firmwares_updates()[id].process(root)
process(id, status, content) ==
    /\ ~firmwares_updates.is_none
    /\ id \in 0..(Len(firmwares_updates.list) - 1)
    /\ LET update == firmwares_updates.list[id + 1]
           r == FirmwareProcess(update, DeviceRoot, status, content, files)
           arg == [update |-> update, status |-> status, content |-> content]
       IN  /\ files' = r.files
           /\ last' = IF r.raised THEN Raised("process", arg, r.error, r.net, r.wrote)
                      ELSE Returned("process", arg, r.net, r.wrote)
    /\ UNCHANGED <<deviceVars, firmwares_updates, apps_updates, fw_catalog, app_catalog, bridge>>

\* ------------------------------------------------------------------------
\* Processing on its own: one pending update whose URL is relative or
\* absolute, with and without a declared size and checksum, downloaded with
\* any status and content
\* ------------------------------------------------------------------------
UnitPaths == {DefaultUnitPath, <<"\\", "GARMIN", "\\", "GUPDATE.GCD">>}

ProcessCandidates ==
    {[PartNumber |-> "006-B0001-00", SoftwareVersion |-> VersionString(MaxMajor, 0),
      DataType |-> "Firmware", InstallationOrder |-> 1,
      Url |-> [IsRelative |-> relative, Url |-> DownloadUrl("006-B0001-00", VersionString(MaxMajor, 0)),
               Md5 |-> md5, Size |-> size],
      DisplayName |-> "System Software", FilePathOnUnit |-> path] :
        relative \in BOOLEAN, md5 \in {NoneStr, Md5Hex(<<7>>)}, size \in {NoneInt, 1},
        path \in UnitPaths}

ProcessManifest ==
    [model_part |-> "006-B9999-00", max_apps |-> 1,
     update_files |-> <<[PartNumber |-> "006-B0001-00", Major |-> 0, Minor |-> 0]>>,
     apps |-> <<>>, datatypes |-> DefaultDatatypesXml]

InitProcess ==
    /\ DeviceInit(ProcessManifest)
    /\ fw_catalog \in {<<c>> : c \in ProcessCandidates}
    /\ app_catalog = <<>>
    /\ files = << >>
    /\ last = NoCall
    /\ bridge = NoBridge

NextProcess ==
    \/ get_firmwares_updates(FALSE, 200, "options")
    \/ \E status \in HttpStatuses, content \in Contents : process(0, status, content)

SpecProcess == InitProcess /\ [][NextProcess]_vars

\* ------------------------------------------------------------------------
\* Device.install, with App.__init__, App.download, App.download_settings
\* and App.parse_xml (src/GSL/app.py)
\* ------------------------------------------------------------------------
MaxAppsError == "Maximum number of applications reached"

AlreadyInstalledError == "The application is already installed"

InvalidCiqUrlError == "Invalid CIQ URL"

AppInfoError == "Failed to get app version"

DatatypeError == "no single file is available for the datatype"

OutputFromUnitError == "The transfert direction is output from the unit"

DownloadError == "Failed to download the application and the settings"

SettingsDatatypeKey == "IQAppsSettingsFile"

AppInfoRequest(guid) == <<"GET apps", guid>>

AppVersionRequest(guid) == <<"POST apps/install", guid>>

AppBinaryRequest(guid) == <<"GET binaries", guid>>

SettingsFormRequest(guid) == <<"GET appSettings2/edit", guid>>

SettingsBinaryRequest(guid) == <<"POST appSettings2/binary", guid>>

CapacityReached_Above(nb_apps, capacity) == nb_apps > capacity

\* len(self.apps) >= self.max_nb_apps
CapacityReached(nb_apps, capacity) == nb_apps >= capacity

\* CIQ.get_app_guid: ciq_url.split("/apps/")[1].split("/")[0]; a URL is the
\* sequence of its parts around "/apps/", each the sequence of its parts
\* around "/"
GetAppGuid(ciq_url) ==
    IF Len(ciq_url) < 2 THEN [ok |-> FALSE, value |-> ""]
    ELSE [ok |-> TRUE, value |-> ciq_url[2][1]]

\* App(**kwargs, force_load_info=True): the GUID from ciq_url or ciq_guid,
\* then _load_info_latest, which asks the app-metadata endpoint
AppNew(kwargs, info) ==
    LET guid == IF kwargs.mode = "ciq_url" THEN GetAppGuid(kwargs.ciq_url)
                ELSE [ok |-> TRUE, value |-> kwargs.ciq_guid]
    IN  IF ~guid.ok
        THEN [ok |-> FALSE, error |-> InvalidCiqUrlError, net |-> <<>>, guid |-> "", app |-> <<>>]
        ELSE IF info.status # 200
        THEN [ok |-> FALSE, error |-> AppInfoError, net |-> <<AppInfoRequest(guid.value)>>,
              guid |-> guid.value, app |-> <<>>]
        ELSE [ok |-> TRUE, error |-> "", net |-> <<AppInfoRequest(guid.value)>>,
              guid |-> guid.value,
              app |-> [name |-> info.name, guid |-> guid.value,
                       version_int |-> info.latestInternalVersion,
                       filename |-> NoneStr, type |-> info.type,
                       version_guid |-> NoneStr,
                       has_settings |-> SomeDict(info.availabilityByDeviceTypeId),
                       compatible_devices_ids |-> "ids"]]

InstallLocation_AnyDirection(key, table, default_extension) ==
    LET loc == ResolveDatatype(key, table)
    IN  IF ~loc.ok THEN [ok |-> FALSE, error |-> DatatypeError, path |-> <<>>, extension |-> ""]
        ELSE [ok |-> TRUE, error |-> "", path |-> loc.file.Path,
              extension |-> IF loc.file.FileExtension = NoneStr THEN default_extension
                            ELSE loc.file.FileExtension]

\* the file of a datatype as install uses it: exactly one location, the
\* extension defaulted, OutputFromUnit refused
InstallLocation(key, table, default_extension) ==
    LET loc == ResolveDatatype(key, table)
    IN  IF ~loc.ok THEN [ok |-> FALSE, error |-> DatatypeError, path |-> <<>>, extension |-> ""]
        ELSE IF loc.file.TransferDirection = "OutputFromUnit"
        THEN [ok |-> FALSE, error |-> OutputFromUnitError, path |-> <<>>, extension |-> ""]
        ELSE [ok |-> TRUE, error |-> "", path |-> loc.file.Path,
              extension |-> IF loc.file.FileExtension = NoneStr THEN default_extension
                            ELSE loc.file.FileExtension]

\* the app list of the manifest text is the empty element <Apps/>: the text
\* holds no closing tag "</Apps>"
AppsEmptyElement(raw) == "apps_empty_element" \in DOMAIN raw

\* App.parse_xml: the <App> fragment of the application
AppXml(app) ==
    [AppName |-> app.name, StoreId |-> app.guid,
     AppType |-> CASE app.type = "WatchFace" -> "watchface"
                   [] app.type = "WatchApp" -> "watchapp"
                   [] app.type = "Widget" -> "widget"
                   [] app.type = "DataField" -> "datafield"
                   [] app.type = "MusicApp" -> "audio-content-provider-app"
                   [] app.type = "Activity" -> "activity"
                   [] OTHER -> "unknown",
     Version |-> app.version_int, FileName |-> app.filename]

SpliceApp_AnyAppList(raw, app_xml) == [raw EXCEPT !.apps = Append(raw.apps, app_xml)]

\* self.xml_raw.replace("</Apps>", f"{app_xml}</Apps>"): the fragment goes
\* before the closing tag of the app list; a text without that tag is left
\* as it is
SpliceApp(raw, app_xml) ==
    IF AppsEmptyElement(raw) THEN raw
    ELSE [raw EXCEPT !.apps = Append(raw.apps, app_xml)]

\* App.download then, when has_settings is true, App.download_settings. The
\* settings bridge (CIQ.download_app_settings) raises when the form cannot be
\* fetched; an exception raised inside its POST handler is caught by the HTTP
\* server, so that the bridge goes on waiting: the call is then "waiting"
DownloadAppAndSettings(app, app_filepath, set_filepath, has_cookie, answers, fs) ==
    LET need_version == app.version_guid = NoneStr
        net1 == IF need_version /\ has_cookie THEN <<AppVersionRequest(app.guid)>> ELSE <<>>
        net2 == net1 \o <<AppBinaryRequest(app.guid)>>
        fs2 == WriteFile(fs, app_filepath, answers.binary.content)
        net3 == net2 \o <<SettingsFormRequest(app.guid)>>
        net4 == net3 \o <<SettingsBinaryRequest(app.guid)>>
    IN  IF need_version /\ ~has_cookie
        THEN [ok |-> FALSE, waiting |-> FALSE, net |-> <<>>, files |-> fs, wrote |-> {}]
        ELSE IF need_version /\ ~answers.version_ok
        THEN [ok |-> FALSE, waiting |-> FALSE, net |-> net1, files |-> fs, wrote |-> {}]
        ELSE IF answers.binary.status # 200
        THEN [ok |-> FALSE, waiting |-> FALSE, net |-> net2, files |-> fs, wrote |-> {}]
        ELSE IF ~Truthy(app.has_settings)
        THEN [ok |-> TRUE, waiting |-> FALSE, net |-> net2, files |-> fs2, wrote |-> {app_filepath}]
        ELSE IF app.version_int = NoneInt \/ app.compatible_devices_ids = NoneStr
        THEN [ok |-> FALSE, waiting |-> FALSE, net |-> net2, files |-> fs2, wrote |-> {app_filepath}]
        ELSE IF answers.settings = "form_failed"
        THEN [ok |-> FALSE, waiting |-> FALSE, net |-> net3, files |-> fs2, wrote |-> {app_filepath}]
        ELSE IF answers.settings = "binary_failed"
        THEN [ok |-> FALSE, waiting |-> TRUE, net |-> net4, files |-> fs2, wrote |-> {app_filepath}]
        ELSE [ok |-> TRUE, waiting |-> FALSE, net |-> net4,
              files |-> WriteFile(fs2, set_filepath, answers.settings_content),
              wrote |-> {app_filepath, set_filepath}]

AlreadyInstalled_Never(guid, installed) == FALSE

\* app.guid in [app.guid for app in self.apps]
AlreadyInstalled(guid, installed) == \E i \in 1..Len(installed) : installed[i].guid = guid

\* the call as a function of the Descriptor, the manifest file, the
\* filesystem, the arguments and the answers of the remote endpoints
InstallCall(installed, capacity, table, raw, file, fs, has_cookie, arg, answers) ==
    LET same == [raised |-> TRUE, waiting |-> FALSE, error |-> "", net |-> <<>>, apps |-> installed,
                 xml_raw |-> raw, xml_file |-> file, files |-> fs, wrote |-> {}, guid |-> ""]
        loaded == IF arg.mode = "app"
                  THEN [ok |-> TRUE, error |-> "", net |-> <<>>, guid |-> arg.app.guid, app |-> arg.app]
                  ELSE AppNew(arg, answers.info)
        key == AppDatatypeKey(loaded.app.type)
        app_loc == InstallLocation(key.value, table, "PRG")
        set_loc == InstallLocation(SettingsDatatypeKey, table, "SET")
        app == [loaded.app EXCEPT !.filename = <<loaded.app.guid, app_loc.extension>>]
        app_filepath == PathJoin(PathJoin(DeviceRoot, app_loc.path), <<app.filename>>)
        set_filepath == PathJoin(PathJoin(DeviceRoot, set_loc.path),
                                 <<<<app.guid, set_loc.extension>>>>)
        dl == DownloadAppAndSettings(app, app_filepath, set_filepath, has_cookie, answers, fs)
        new_xml_raw == SpliceApp(raw, AppXml(app))
    IN  IF CapacityReached(Len(installed), capacity)
        THEN [same EXCEPT !.error = MaxAppsError]
        ELSE IF ~loaded.ok
        THEN [same EXCEPT !.error = loaded.error, !.net = loaded.net, !.guid = loaded.guid]
        ELSE IF AlreadyInstalled(loaded.guid, installed)
        THEN [same EXCEPT !.error = AlreadyInstalledError, !.net = loaded.net, !.guid = loaded.guid]
        ELSE IF ~key.ok
        THEN [same EXCEPT !.error = DatatypeError, !.net = loaded.net, !.guid = loaded.guid]
        ELSE IF ~app_loc.ok
        THEN [same EXCEPT !.error = app_loc.error, !.net = loaded.net, !.guid = loaded.guid]
        ELSE IF ~set_loc.ok
        THEN [same EXCEPT !.error = set_loc.error, !.net = loaded.net, !.guid = loaded.guid]
        ELSE IF ~dl.ok
        THEN [same EXCEPT !.raised = ~dl.waiting, !.waiting = dl.waiting,
                          !.error = IF dl.waiting THEN "" ELSE DownloadError,
                          !.net = loaded.net \o dl.net,
                          !.files = dl.files, !.wrote = dl.wrote, !.guid = loaded.guid]
        ELSE [raised |-> FALSE, waiting |-> FALSE, error |-> "", net |-> loaded.net \o dl.net,
              apps |-> Append(installed, app), xml_raw |-> new_xml_raw, xml_file |-> new_xml_raw,
              files |-> dl.files, wrote |-> dl.wrote, guid |-> loaded.guid]

\* the endpoints that answer an install with a failure
FailedEndpoints(answers) ==
    (IF answers.info.status # 200 THEN {AppInfoRequest("")[1]} ELSE {})
    \cup (IF ~answers.version_ok THEN {AppVersionRequest("")[1]} ELSE {})
    \cup (IF answers.binary.status # 200 THEN {AppBinaryRequest("")[1]} ELSE {})
    \cup (IF answers.settings = "form_failed" THEN {SettingsFormRequest("")[1]} ELSE {})
    \cup (IF answers.settings = "binary_failed" THEN {SettingsBinaryRequest("")[1]} ELSE {})

install(has_cookie, arg, answers) ==
    LET r == InstallCall(apps, max_nb_apps, datatypes, xml_raw, xml_file, files,
                         has_cookie, arg, answers)
        a == [mode |-> arg.mode, guid |-> r.guid, session_cookie |-> has_cookie,
              failed |-> FailedEndpoints(answers)]
    IN  /\ last.outcome # "waiting"
        /\ apps' = r.apps
        /\ xml_raw' = r.xml_raw
        /\ xml_file' = r.xml_file
        /\ files' = r.files
        /\ last' = IF r.raised THEN Raised("install", a, r.error, r.net, r.wrote)
                   ELSE IF r.waiting THEN Waiting("install", a, r.net, r.wrote)
                   ELSE Returned("install", a, r.net, r.wrote)
        /\ UNCHANGED <<part_number, max_nb_apps, firmware_versions, datatypes,
                       firmwares_updates, apps_updates, fw_catalog, app_catalog, bridge>>

\* ------------------------------------------------------------------------
\* The installs of SpecInstall: a device of capacity 1..MaxApps holding up to
\* that many apps; the app is given as an object, by GUID or by store URL
\* ------------------------------------------------------------------------
MaxApps == 2

\* the applications asked for: one the manifests may hold, one they never hold
InstallGuids == {"guid-a", "guid-n"}

ThisDeviceTypeId == "1"

OtherDeviceTypeId == "2"

StoreUrl(guid) == << <<"https:", "", "apps.garmin.com", "en-US">>, <<guid, "reviews">> >>

NotAStoreUrl == << <<"https:", "", "apps.garmin.com", "en-US", "search">> >>

InstalledLists ==
    {<<>>, <<InstalledAppXml("guid-a", 1)>>,
     <<InstalledAppXml("guid-a", 1), InstalledAppXml("guid-b", 1)>>,
     <<InstalledAppXml("guid-a", 1), InstalledAppXml("guid-b", 1), InstalledAppXml("guid-c", 1)>>}

InstallManifests ==
    UNION {{[model_part |-> "006-B9999-00", max_apps |-> capacity,
             update_files |-> <<[PartNumber |-> "006-B0001-00", Major |-> 1, Minor |-> 0]>>,
             apps |-> installed, datatypes |-> AppDiffDatatypesXml] :
                installed \in {l \in InstalledLists : Len(l) <= capacity}} :
           capacity \in 1..MaxApps}

AppObject(guid, type, version_guid, has_settings) ==
    [name |-> guid, guid |-> guid, version_int |-> 1, filename |-> NoneStr, type |-> type,
     version_guid |-> version_guid, has_settings |-> has_settings,
     compatible_devices_ids |-> "ids"]

\* App(ciq_guid=g) as constructed without loading, and three loaded ones
AppObjects ==
    UNION {{AppObject(guid, "None", NoneStr, NoneDict),
            AppObject(guid, "WatchFace", NoneStr, SomeDict(<< >>)),
            AppObject(guid, "WatchFace", "version-1",
                      SomeDict([d \in {ThisDeviceTypeId} |-> TRUE])),
            AppObject(guid, "Widget", "version-1", NoneDict)} : guid \in InstallGuids}

NoApp == CHOOSE a \in AppObjects : TRUE

InstallArguments ==
    {[mode |-> "app", app |-> a, ciq_guid |-> NoneStr, ciq_url |-> <<>>] : a \in AppObjects}
    \cup {[mode |-> "ciq_guid", app |-> NoApp, ciq_guid |-> g, ciq_url |-> <<>>] : g \in InstallGuids}
    \cup {[mode |-> "ciq_url", app |-> NoApp, ciq_guid |-> NoneStr, ciq_url |-> u] :
            u \in {StoreUrl(g) : g \in InstallGuids} \cup {NotAStoreUrl}}

AppInfo(type, avail) ==
    [status |-> 200, name |-> "app", latestInternalVersion |-> 2, type |-> type,
     availabilityByDeviceTypeId |-> avail]

AppInfos ==
    {AppInfo("WatchFace", << >>), AppInfo("WatchFace", [d \in {OtherDeviceTypeId} |-> TRUE]),
     AppInfo("MusicApp", << >>)}

AllAnswered(info) ==
    [info |-> info, version_ok |-> TRUE, binary |-> [status |-> 200, content |-> <<7>>],
     settings |-> "written", settings_content |-> <<8>>]

\* every endpoint answers, or exactly one of them fails
InstallAnswers ==
    LET ok == AllAnswered(AppInfo("WatchFace", [d \in {OtherDeviceTypeId} |-> TRUE]))
    IN  {AllAnswered(info) : info \in AppInfos}
        \cup {[ok EXCEPT !.info.status = 500], [ok EXCEPT !.version_ok = FALSE],
              [ok EXCEPT !.binary.status = 500], [ok EXCEPT !.settings = "form_failed"],
              [ok EXCEPT !.settings = "binary_failed"]}

InitInstall ==
    /\ \E manifest \in InstallManifests : DeviceInit(manifest)
    /\ fw_catalog = <<>>
    /\ app_catalog = <<>>
    /\ files = << >>
    /\ last = NoCall
    /\ bridge = NoBridge

\* one thing goes wrong at a time: an endpoint fails, or the caller has no
\* session cookie
NextInstall ==
    \/ \E arg \in InstallArguments, answers \in InstallAnswers : install(TRUE, arg, answers)
    \/ \E arg \in InstallArguments :
            install(FALSE, arg, AllAnswered(AppInfo("WatchFace", << >>)))

SpecInstall == InitInstall /\ [][NextInstall]_vars

\* ------------------------------------------------------------------------
\* File Locations (SpecLocations): devices whose manifest declares, for the
\* watch-face datatype or for the settings datatype, no DataType block, a
\* block without File, with one File (of any transfer direction, declared
\* or not), with two Files, or two blocks of the same Name; the app list is
\* empty (<Apps></Apps> or <Apps/>) or holds guid-a
\* ------------------------------------------------------------------------
FileLocation(path, direction, extension) ==
    [Path |-> path, TransferDirection |-> direction, FileExtension |-> extension]

DataTypeBlock(name, locations) == [Name |-> name, Files |-> locations]

AppsPath == <<"GARMIN", "/", "APPS">>

TempPath == <<"GARMIN", "/", "APPS", "/", "TEMP">>

SettingsPath == <<"GARMIN", "/", "APPS", "/", "SETTINGS">>

\* the layouts of the DataType blocks of one name
BlockLayouts(name, path, extension) ==
    {<<>>,
     <<DataTypeBlock(name, <<>>)>>,
     <<DataTypeBlock(name, <<FileLocation(path, "InputToUnit", extension),
                             FileLocation(TempPath, "InputToUnit", extension)>>)>>,
     <<DataTypeBlock(name, <<FileLocation(path, "InputToUnit", extension)>>),
       DataTypeBlock(name, <<FileLocation(TempPath, "InputToUnit", extension)>>)>>}
    \cup {<<DataTypeBlock(name, <<FileLocation(path, direction, extension)>>)>> :
            direction \in {"InputToUnit", "OutputFromUnit", "InputOutput", NoneStr}}
    \cup {<<DataTypeBlock(name, <<FileLocation(path, NoneStr, NoneStr)>>)>>}

LocationTables ==
    {face \o <<DefaultDatatypesXml[2]>> : face \in BlockLayouts("IQWatchFaces", AppsPath, "PRG")}
    \cup {<<DefaultDatatypesXml[1]>> \o set :
                set \in BlockLayouts(SettingsDatatypeKey, SettingsPath, "SET")}
    \cup {<<DataTypeBlock("IQWatchFaces", <<FileLocation(AppsPath, NoneStr, NoneStr)>>),
             DataTypeBlock(SettingsDatatypeKey, <<FileLocation(SettingsPath, NoneStr, NoneStr)>>)>>}

LocationManifest(installed, table) ==
    [model_part |-> "006-B9999-00", max_apps |-> MaxApps,
     update_files |-> <<[PartNumber |-> "006-B0001-00", Major |-> 1, Minor |-> 0]>>,
     apps |-> installed, datatypes |-> table]

\* the same manifest with the empty app list written <Apps/>
EmptyElementManifest(table) ==
    [model_part |-> "006-B9999-00", max_apps |-> MaxApps,
     update_files |-> <<[PartNumber |-> "006-B0001-00", Major |-> 1, Minor |-> 0]>>,
     apps |-> <<>>, datatypes |-> table, apps_empty_element |-> TRUE]

LocationManifests ==
    {LocationManifest(installed, table) :
        installed \in {<<>>, <<InstalledAppXml("guid-a", 1)>>}, table \in LocationTables}
    \cup {EmptyElementManifest(table) : table \in LocationTables}

\* a loaded watch face with and without settings, given as an object
LocationApps ==
    {AppObject(guid, "WatchFace", "version-1", has_settings) :
        guid \in {"guid-n", "guid-m"},
        has_settings \in {SomeDict(<< >>), SomeDict([d \in {ThisDeviceTypeId} |-> TRUE])}}

LocationArguments ==
    {[mode |-> "app", app |-> a, ciq_guid |-> NoneStr, ciq_url |-> <<>>] : a \in LocationApps}

LocationCatalog ==
    <<[appId |-> "guid-a", type |-> "watchface", latestInternalVersionNumber |-> 2,
       name |-> <<"guid-a", "watchface">>, size |-> 1]>>

InitLocations ==
    /\ \E manifest \in LocationManifests : DeviceInit(manifest)
    /\ fw_catalog = <<>>
    /\ app_catalog = LocationCatalog
    /\ files = << >>
    /\ last = NoCall
    /\ bridge = NoBridge

NextLocations ==
    \/ \E arg \in LocationArguments :
            install(TRUE, arg, AllAnswered(AppInfo("WatchFace", << >>)))
    \/ get_apps_updates(TRUE, TRUE, 200, "list")

SpecLocations == InitLocations /\ [][NextLocations]_vars

\* ------------------------------------------------------------------------
\* CIQ.download_app_settings: the settings form is fetched, a local HTTP
\* server is opened with the browser on it, and it handles requests one at a
\* time.  The repository holds the function twice: in the package
\* (src/GSL/ciq.py) requests are handled while Handler.done is false, in the
\* script (src/gsl.py) exactly two requests are handled
\* ------------------------------------------------------------------------
Package == "GSL/ciq.py"

Script == "gsl.py"

\* server.handle_request() # Open the html form
\* server.handle_request() # Get the settings string and then the file
ScriptRequests == 2

SettingsFormError == "Failed to get the html settigns form"

SettingsBinaryError == "Failed to retrieve the settings file"

SettingsWriteError == "Failed to write the settings file to the file"

\* the call up to the first handle_request: requests.get of the form, raise
\* on a status other than 200, else the server is opened
BridgeOpen(impl, output_path, form_status) ==
    IF form_status # 200
    THEN [NoBridge EXCEPT !.impl = impl, !.pc = "raised", !.error = SettingsFormError,
                          !.output_path = output_path]
    ELSE [NoBridge EXCEPT !.impl = impl, !.pc = "listening", !.output_path = output_path]

\* a request the local server handled: what it answered to the browser (status
\* 0 when the handler raised and the connection was closed without answer),
\* what it forwarded to the vendor, the vendor's answer, what the handler raised
Served(method, status, sent, forwarded, vendor, raised) ==
    [method |-> method, status |-> status, sent |-> sent, forwarded |-> forwarded,
     vendor |-> vendor, raised |-> raised]

NoVendor == [status |-> 0, content |-> <<>>]

\* Handler.do_GET: 200 and the form
HandleGet(b) ==
    [b EXCEPT !.served = Append(@, Served("GET", 200, "form", "", NoVendor, ""))]

HandlePost_AnswersBeforeWriting(b, fs, settings_string, vendor, writable) ==
    IF vendor.status # 200
    THEN [bridge |-> [b EXCEPT !.served = Append(@, Served("POST", 0, "", settings_string,
                                                            vendor, SettingsBinaryError))],
          files |-> fs]
    ELSE [bridge |-> [b EXCEPT !.served = Append(@, Served("POST", 200, "OK", settings_string,
                                                            vendor, "")),
                               !.done = (b.impl = Package)],
          files |-> IF writable THEN WriteFile(fs, b.output_path, vendor.content) ELSE fs]

\* Handler.do_POST: the body is forwarded to the vendor's binary endpoint; on
\* an answer other than 200, or when the file cannot be written, the handler
\* raises: the server catches the exception (socketserver handle_error) and
\* closes the connection.  Otherwise the answer is written to output_path,
\* then 200 "OK" is sent, then (package) Handler.done = True
HandlePost(b, fs, settings_string, vendor, writable) ==
    IF vendor.status # 200
    THEN [bridge |-> [b EXCEPT !.served = Append(@, Served("POST", 0, "", settings_string,
                                                            vendor, SettingsBinaryError))],
          files |-> fs]
    ELSE IF ~writable
    THEN [bridge |-> [b EXCEPT !.served = Append(@, Served("POST", 0, "", settings_string,
                                                            vendor, SettingsWriteError))],
          files |-> fs]
    ELSE [bridge |-> [b EXCEPT !.served = Append(@, Served("POST", 200, "OK", settings_string,
                                                            vendor, "")),
                               !.done = (b.impl = Package)],
          files |-> WriteFile(fs, b.output_path, vendor.content)]

Listening_TwoRequests(b) ==
    /\ b.pc = "listening"
    /\ Len(b.served) < ScriptRequests

\* the server is about to handle one more request: while not Handler.done in
\* the package, the first and the second handle_request() in the script
Listening(b) ==
    /\ b.pc = "listening"
    /\ IF b.impl = Package THEN ~b.done ELSE Len(b.served) < ScriptRequests

\* what the bridge leaves alone
bridgeFrame == <<deviceVars, firmwares_updates, apps_updates, fw_catalog, app_catalog, last>>

download_app_settings(impl, output_path, form_status) ==
    /\ bridge.pc # "listening"
    /\ bridge' = BridgeOpen(impl, output_path, form_status)
    /\ UNCHANGED <<bridgeFrame, files>>

\* ------------------------------------------------------------------------
\* The settings bridge on its own (SpecBridge): the settings of one of two
\* apps are captured; the browser sends GETs and POSTs in any order, at most
\* MaxRequests of them per call; the vendor accepts or rejects a POST
\* ------------------------------------------------------------------------
MaxRequests == 3

\* server.handle_request(), a GET arriving
do_GET ==
    /\ Listening(bridge)
    /\ Len(bridge.served) < MaxRequests
    /\ bridge' = HandleGet(bridge)
    /\ UNCHANGED <<bridgeFrame, files>>

\* server.handle_request(), a POST arriving
do_POST(settings_string, vendor, writable) ==
    LET r == HandlePost(bridge, files, settings_string, vendor, writable)
    IN  /\ Listening(bridge)
        /\ Len(bridge.served) < MaxRequests
        /\ bridge' = r.bridge
        /\ files' = r.files
        /\ UNCHANGED bridgeFrame

\* no further request is handled: server.server_close() and return
server_close ==
    /\ bridge.pc = "listening"
    /\ ~Listening(bridge)
    /\ bridge' = [bridge EXCEPT !.pc = "returned"]
    /\ UNCHANGED <<bridgeFrame, files>>

SettingsPaths ==
    {PathJoin(DeviceRoot, <<"GARMIN", "/", "APPS", "/", "SETTINGS", "/", <<guid, "SET">>>>) :
        guid \in {"guid-a", "guid-b"}}

VendorAnswers ==
    {[status |-> 200, content |-> <<7>>], [status |-> 200, content |-> <<8>>],
     [status |-> 500, content |-> <<>>]}

InitBridge ==
    /\ DeviceInit(CandidateManifest)
    /\ fw_catalog = <<>>
    /\ app_catalog = <<>>
    /\ files = << >>
    /\ last = NoCall
    /\ bridge = NoBridge

NextBridge ==
    \/ \E impl \in {Package, Script}, output_path \in SettingsPaths, form_status \in HttpStatuses :
            download_app_settings(impl, output_path, form_status)
    \/ do_GET
    \/ \E vendor \in VendorAnswers, writable \in BOOLEAN : do_POST("settings", vendor, writable)
    \/ server_close

SpecBridge == InitBridge /\ [][NextBridge]_vars

\* ------------------------------------------------------------------------
\* Device.update_firmwares, Device.update_apps, Device.update
\*
\* A run is the state a call works on and what it has done so far; env is
\* what the call reads but never changes (the parsed Descriptor fields, the
\* catalogs, the arguments shared by the nested calls and the answers of the
\* remote endpoints).
\* ------------------------------------------------------------------------
BothError == "Either ids or names can be provided, not both"

InvalidFirmwareNameError == "Invalid firmware update name"

InvalidFirmwareIdError == "Invalid firmware update id"

InvalidAppNameError == "Invalid application update name"

InvalidAppIdError == "Invalid application update id"

XmlCommitError == "Failed to find the application in the XML file during the update"

PopIndexError == "IndexError: pop index out of range"

PopNoneError == "AttributeError: 'NoneType' object has no attribute 'pop'"

AppVersionError == "Failed to get app version"

AppDownloadError == "Failed to download app"

AppSizeMismatchError == "Failed to download the application: size does not match"

\* AppUpdate.process: self.size + 520 != os.path.getsize(tmp.name)
AppSizeOverhead == 520

InList(x, list) == \E i \in 1..Len(list) : list[i] = x

Run(fu, au, raw, file, fs) ==
    [firmwares_updates |-> fu, apps_updates |-> au, xml_raw |-> raw, xml_file |-> file,
     files |-> fs, raised |-> FALSE, error |-> "", net |-> <<>>, paths |-> <<>>,
     wrote |-> {}, processed |-> <<>>, applied |-> <<>>,
     pending_firmwares |-> fu, pending_apps |-> au]

Fail(r, error) == [r EXCEPT !.raised = TRUE, !.error = error]

\* the pending firmware list and the outcome of a pull, taken into the run
MergeFirmwares(r, g) ==
    [r EXCEPT !.firmwares_updates = g.cache, !.pending_firmwares = g.cache,
              !.net = @ \o g.net, !.raised = g.raised, !.error = g.error]

\* self.get_firmwares_updates(force_reload) inside another call
EnsureFirmwares(r, force_reload, env) ==
    IF r.raised THEN r
    ELSE MergeFirmwares(r, GetFirmwaresUpdatesCall(r.firmwares_updates, env.firmware_versions,
                                                   env.fw_catalog, force_reload,
                                                   env.fw_check.status, env.fw_check.body))

MergeApps(r, g) ==
    [r EXCEPT !.apps_updates = g.cache, !.pending_apps = g.cache,
              !.net = @ \o g.net, !.raised = g.raised, !.error = g.error]

\* self.get_apps_updates(session_cookie, force_reload) inside another call
EnsureApps(r, force_reload, env) ==
    IF r.raised THEN r
    ELSE MergeApps(r, GetAppsUpdatesCall(r.apps_updates, env.apps, env.datatypes,
                                         env.app_catalog, env.has_cookie, force_reload,
                                         env.app_check.status, env.app_check.body))

CheckSelection_NamesWin(r, ids, names) == r

\* if ids is not None and names is not None: raise
CheckSelection(r, ids, names) ==
    IF r.raised THEN r
    ELSE IF ~ids.is_none /\ ~names.is_none THEN Fail(r, BothError)
    ELSE r

\* __update_xml of update_firmwares: the manifest text is split at every
\* '<UpdateFile>'; piece 0 is what precedes the first one (it holds the
\* Model block and its PartNumber), piece i the i-th UpdateFile; exactly one
\* piece must hold the part number, and its Major/Minor are rewritten
FirmwareUpdateXml(raw, part, major, minor) ==
    LET pieces == (IF raw.model_part = part THEN {0} ELSE {})
                  \cup {i \in 1..Len(raw.update_files) : raw.update_files[i].PartNumber = part}
        i == CHOOSE k \in pieces : TRUE
    IN  IF Cardinality(pieces) # 1 THEN [ok |-> FALSE, xml |-> raw]
        ELSE IF i = 0 THEN [ok |-> TRUE, xml |-> raw]
        ELSE [ok |-> TRUE,
              xml |-> [raw EXCEPT !.update_files[i].Major = major,
                                  !.update_files[i].Minor = minor]]

\* __update_xml of update_apps: split at every '<App>', exactly one piece
\* must hold the StoreId, and its Version is rewritten
AppUpdateXml(raw, app_guid, version_int) ==
    LET pieces == {i \in 1..Len(raw.apps) : raw.apps[i].StoreId = app_guid}
        i == CHOOSE k \in pieces : TRUE
    IN  IF Cardinality(pieces) # 1 THEN [ok |-> FALSE, xml |-> raw]
        ELSE [ok |-> TRUE, xml |-> [raw EXCEPT !.apps[i].Version = version_int]]

\* paths.append(update.process(...)): what the process call p did
AfterProcess(r, update, p) ==
    [r EXCEPT !.net = @ \o p.net, !.files = p.files, !.wrote = @ \cup p.wrote,
              !.processed = Append(@, update), !.raised = p.raised, !.error = p.error,
              !.paths = IF p.raised THEN @ ELSE Append(@, p.path)]

CommitXml_AfterFailedProcess(r, x) ==
    IF ~x.ok THEN Fail(r, XmlCommitError)
    ELSE [r EXCEPT !.xml_raw = x.xml, !.xml_file = x.xml, !.applied = r.processed]

\* the end of __update_xml: raise, or xml_raw assigned and written; every
\* update processed so far is then applied, a failure having ended the call
CommitXml(r, x) ==
    IF r.raised THEN r
    ELSE IF ~x.ok THEN Fail(r, XmlCommitError)
    ELSE [r EXCEPT !.xml_raw = x.xml, !.xml_file = x.xml, !.applied = r.processed]

\* the download of a firmware file as the world answers it
FirmwareStatus(update, env) == IF update.url \in env.fw_down THEN 500 ELSE 200

\* paths.append(update.process(self.device_rootpath)) then __update_xml(...)
ApplyFirmware(r, update, env) ==
    CommitXml(AfterProcess(r, update,
                           FirmwareProcess(update, DeviceRoot, FirmwareStatus(update, env),
                                           env.fw_content, r.files)),
              FirmwareUpdateXml(r.xml_raw, update.part_number, update.major, update.minor))

AppProcess_RemovesBeforeCheck(update, device_rootpath, env, fs) ==
    LET filepath == PathJoin(device_rootpath, update.unit_filepath)
        version == AppVersionRequest(update.app_guid)
        binary == AppBinaryRequest(update.app_guid)
        none == [raised |-> TRUE, error |-> "", net |-> <<version, binary>>, files |-> fs,
                 wrote |-> {}, path |-> <<>>]
    IN  IF ~env.version_ok THEN [none EXCEPT !.error = AppVersionError, !.net = <<version>>]
        ELSE IF update.app_guid \in env.app_down THEN [none EXCEPT !.error = AppDownloadError]
        ELSE IF update.size # NoneInt /\ update.size + AppSizeOverhead # env.app_binary.length
        THEN [none EXCEPT !.error = AppSizeMismatchError,
                          !.files = [q \in DOMAIN fs \ {filepath} |-> fs[q]]]
        ELSE [raised |-> FALSE, error |-> "", net |-> <<version, binary>>,
              files |-> WriteFile(fs, filepath, env.app_binary), wrote |-> {filepath},
              path |-> filepath]

\* AppUpdate.process: version GUID, download to a temporary file, size
\* check, then the file of the app on the device is replaced
AppProcess(update, device_rootpath, env, fs) ==
    LET filepath == PathJoin(device_rootpath, update.unit_filepath)
        version == AppVersionRequest(update.app_guid)
        binary == AppBinaryRequest(update.app_guid)
        none == [raised |-> TRUE, error |-> "", net |-> <<version, binary>>, files |-> fs,
                 wrote |-> {}, path |-> <<>>]
    IN  IF ~env.version_ok THEN [none EXCEPT !.error = AppVersionError, !.net = <<version>>]
        ELSE IF update.app_guid \in env.app_down THEN [none EXCEPT !.error = AppDownloadError]
        ELSE IF update.size # NoneInt /\ update.size + AppSizeOverhead # env.app_binary.length
        THEN [none EXCEPT !.error = AppSizeMismatchError]
        ELSE [raised |-> FALSE, error |-> "", net |-> <<version, binary>>,
              files |-> WriteFile(fs, filepath, env.app_binary), wrote |-> {filepath},
              path |-> filepath]

\* paths.append(update.process(...)) then __update_xml(...)
ApplyApp(r, update, env) ==
    CommitXml(AfterProcess(r, update, AppProcess(update, DeviceRoot, env, r.files)),
              AppUpdateXml(r.xml_raw, update.app_guid, update.version_int))

\* for id in ids_torm: self.apps_updates.pop(id)
RECURSIVE PopAppsUpdates(_, _)
PopAppsUpdates(r, ids_torm) ==
    IF r.raised \/ Len(ids_torm) = 0 THEN r
    ELSE IF r.apps_updates.is_none THEN Fail(r, PopNoneError)
    ELSE IF Head(ids_torm) >= Len(r.apps_updates.list) THEN Fail(r, PopIndexError)
    ELSE PopAppsUpdates([r EXCEPT !.apps_updates.list = RemoveAt(@, Head(ids_torm))],
                        Tail(ids_torm))

\* the loop after a by-name loop, over the indexes that loop collected
PopCollected(loop) == PopAppsUpdates(loop.run, loop.ids_torm)

\* for id, update in enumerate(self.get_firmwares_updates()): the list
\* iterated is the cached list itself, and the body pops from it
RECURSIVE FirmwareNameLoop(_, _, _, _, _)
FirmwareNameLoop(r, id, names, ids_torm, env) ==
    IF r.raised \/ id >= Len(r.firmwares_updates.list)
    THEN [run |-> r, ids_torm |-> ids_torm]
    ELSE IF InList(r.firmwares_updates.list[id + 1].name, names)
    THEN FirmwareNameLoop(ApplyFirmware([r EXCEPT !.firmwares_updates.list = RemoveAt(@, id)],
                                        r.firmwares_updates.list[id + 1], env),
                          id + 1, names, Append(ids_torm, id), env)
    ELSE FirmwareNameLoop(r, id + 1, names, ids_torm, env)

\* for id in ids: check against max_id, pop(id), process, commit
RECURSIVE FirmwareIdLoop(_, _, _, _)
FirmwareIdLoop(r, ids, max_id, env) ==
    IF r.raised \/ Len(ids) = 0 THEN r
    ELSE IF Head(ids) >= max_id THEN Fail(r, InvalidFirmwareIdError)
    ELSE IF Head(ids) >= Len(r.firmwares_updates.list) THEN Fail(r, PopIndexError)
    ELSE FirmwareIdLoop(ApplyFirmware([r EXCEPT !.firmwares_updates.list = RemoveAt(@, Head(ids))],
                                      r.firmwares_updates.list[Head(ids) + 1], env),
                        Tail(ids), max_id, env)

\* for update in self.get_firmwares_updates(): process, commit
RECURSIVE FirmwareAllLoop(_, _, _)
FirmwareAllLoop(r, k, env) ==
    IF r.raised \/ k > Len(r.firmwares_updates.list) THEN r
    ELSE FirmwareAllLoop(ApplyFirmware(r, r.firmwares_updates.list[k], env), k + 1, env)

\* self.firmwares_updates = [] after the loop over all of them
ClearFirmwares(r) == IF r.raised THEN r ELSE [r EXCEPT !.firmwares_updates = SomeList(<<>>)]

\* self.read_xml(): xml_raw is read back from the manifest file
ReadXml(r) == IF r.raised THEN r ELSE [r EXCEPT !.xml_raw = ReadText(r.xml_file)]

\* the three selection modes of update_firmwares, the pending list pulled
FirmwareSelected(r, ids, names, env) ==
    IF r.raised THEN r
    ELSE IF ~names.is_none
    THEN IF \E i \in 1..Len(names.list) :
                ~\E k \in 1..Len(r.firmwares_updates.list) :
                    r.firmwares_updates.list[k].name = names.list[i]
         THEN Fail(r, InvalidFirmwareNameError)
         ELSE PopCollected(FirmwareNameLoop(r, 0, names.list, <<>>, env))
    ELSE IF ~ids.is_none
    THEN FirmwareIdLoop(r, ids.list, Len(r.firmwares_updates.list), env)
    ELSE ClearFirmwares(FirmwareAllLoop(r, 1, env))

\* if force_reload: self.get_firmwares_updates(force_reload=True)
ReloadFirmwares(r, force_reload, env) ==
    IF force_reload THEN EnsureFirmwares(r, TRUE, env) ELSE r

UpdateFirmwaresCall(r0, ids, names, force_reload, env) ==
    ReadXml(FirmwareSelected(
                EnsureFirmwares(CheckSelection(ReloadFirmwares(r0, force_reload, env), ids, names),
                                FALSE, env),
                ids, names, env))

\* for id, update in enumerate(self.get_apps_updates(...)): nothing is
\* popped inside the loop, the indexes are collected in ids_torm
RECURSIVE AppNameLoop(_, _, _, _, _)
AppNameLoop(r, id, names, ids_torm, env) ==
    IF r.raised \/ id >= Len(r.apps_updates.list)
    THEN [run |-> r, ids_torm |-> ids_torm]
    ELSE IF InList(r.apps_updates.list[id + 1].name, names)
    THEN AppNameLoop(ApplyApp(r, r.apps_updates.list[id + 1], env), id + 1, names,
                     Append(ids_torm, id), env)
    ELSE AppNameLoop(r, id + 1, names, ids_torm, env)

RECURSIVE AppIdLoop(_, _, _, _)
AppIdLoop(r, ids, max_id, env) ==
    IF r.raised \/ Len(ids) = 0 THEN r
    ELSE IF Head(ids) >= max_id THEN Fail(r, InvalidAppIdError)
    ELSE IF Head(ids) >= Len(r.apps_updates.list) THEN Fail(r, PopIndexError)
    ELSE AppIdLoop(ApplyApp([r EXCEPT !.apps_updates.list = RemoveAt(@, Head(ids))],
                            r.apps_updates.list[Head(ids) + 1], env),
                   Tail(ids), max_id, env)

RECURSIVE AppAllLoop(_, _, _)
AppAllLoop(r, k, env) ==
    IF r.raised \/ k > Len(r.apps_updates.list) THEN r
    ELSE AppAllLoop(ApplyApp(r, r.apps_updates.list[k], env), k + 1, env)

\* self.apps_updates = [] after the loop over all of them
ClearApps(r) == IF r.raised THEN r ELSE [r EXCEPT !.apps_updates = SomeList(<<>>)]

\* the three selection modes of update_apps, the pending list pulled
AppSelected(r, ids, names, env) ==
    IF r.raised THEN r
    ELSE IF ~names.is_none
    THEN IF \E i \in 1..Len(names.list) :
                ~\E k \in 1..Len(r.apps_updates.list) :
                    r.apps_updates.list[k].name = names.list[i]
         THEN Fail(r, InvalidAppNameError)
         ELSE PopCollected(AppNameLoop(r, 0, names.list, <<>>, env))
    ELSE IF ~ids.is_none
    THEN AppIdLoop(r, ids.list, Len(r.apps_updates.list), env)
    ELSE ClearApps(AppAllLoop(r, 1, env))

\* if force_reload: self.get_apps_updates(session_cookie, force_reload=True)
ReloadApps(r, force_reload, env) ==
    IF force_reload THEN EnsureApps(r, TRUE, env) ELSE r

UpdateAppsCall(r0, ids, names, force_reload, env) ==
    ReadXml(AppSelected(
                EnsureApps(CheckSelection(ReloadApps(r0, force_reload, env), ids, names),
                           FALSE, env),
                ids, names, env))

\* [x for x in list if x in keep]
RECURSIVE Filter(_, _)
Filter(list, keep) ==
    IF Len(list) = 0 THEN <<>>
    ELSE (IF Head(list) \in keep THEN <<Head(list)>> ELSE <<>>) \o Filter(Tail(list), keep)

\* Device.update, how the selection is split between the two pending lists.
\* By name: names_firmwares and names_apps.  By id: ids below the number of
\* pending firmware updates go to update_firmwares, the others below the
\* total go, shifted, to update_apps.  Otherwise both calls select all.
SplitSelection(r, ids, names) ==
    LET max_firmwares_id == Len(r.firmwares_updates.list)
        max_apps_id == Len(r.firmwares_updates.list) + Len(r.apps_updates.list)
        shifted == Filter(ids.list, {id \in Range(ids.list) :
                                        id >= max_firmwares_id /\ id < max_apps_id})
    IN  IF ~names.is_none
        THEN [fw_ids |-> NoneList, app_ids |-> NoneList,
              fw_names |-> SomeList(Filter(names.list,
                                {r.firmwares_updates.list[k].name :
                                    k \in 1..Len(r.firmwares_updates.list)})),
              app_names |-> SomeList(Filter(names.list,
                                {r.apps_updates.list[k].name :
                                    k \in 1..Len(r.apps_updates.list)}))]
        ELSE IF ~ids.is_none
        THEN [fw_names |-> NoneList, app_names |-> NoneList,
              fw_ids |-> SomeList(Filter(ids.list,
                                {id \in Range(ids.list) : id < max_firmwares_id})),
              app_ids |-> SomeList([k \in 1..Len(shifted) |-> shifted[k] - max_firmwares_id])]
        ELSE [fw_ids |-> NoneList, app_ids |-> NoneList,
              fw_names |-> NoneList, app_names |-> NoneList]

\* paths += self.update_firmwares(...); paths += self.update_apps(...)
UpdateBoth(r, selection, env) ==
    UpdateAppsCall(UpdateFirmwaresCall(r, selection.fw_ids, selection.fw_names, FALSE, env),
                   selection.app_ids, selection.app_names, FALSE, env)

\* the pulls Device.update makes itself: both with force_reload; both, from
\* the cache when there is one, to split a list of ids or a non-empty list
\* of names
UpdatePulls(r, ids, names, force_reload, env) ==
    LET reloaded == IF force_reload
                    THEN EnsureApps(EnsureFirmwares(r, TRUE, env), TRUE, env)
                    ELSE r
        checked == CheckSelection(reloaded, ids, names)
    IN  IF ~ids.is_none \/ (~names.is_none /\ Len(names.list) > 0)
        THEN EnsureApps(EnsureFirmwares(checked, FALSE, env), FALSE, env)
        ELSE checked

UpdateSplit(r, ids, names, env) == UpdateBoth(r, SplitSelection(r, ids, names), env)

UpdateCall(r0, ids, names, force_reload, env) ==
    UpdateSplit(UpdatePulls(r0, ids, names, force_reload, env), ids, names, env)

\* what a call reads of the Descriptor and of the world
Env(has_cookie, world) ==
    [firmware_versions |-> firmware_versions, apps |-> apps, datatypes |-> datatypes,
     fw_catalog |-> fw_catalog, app_catalog |-> app_catalog, has_cookie |-> has_cookie,
     fw_check |-> world.fw_check, app_check |-> world.app_check,
     fw_down |-> world.fw_down, fw_content |-> world.fw_content,
     version_ok |-> world.version_ok, app_down |-> world.app_down,
     app_binary |-> world.app_binary]

\* the state a call leaves and the record of the call
Finish(op, arg, r) ==
    /\ firmwares_updates' = r.firmwares_updates
    /\ apps_updates' = r.apps_updates
    /\ xml_raw' = r.xml_raw
    /\ xml_file' = r.xml_file
    /\ files' = r.files
    /\ last' = [op |-> op, arg |-> arg,
                outcome |-> IF r.raised THEN "raised" ELSE "returned",
                error |-> r.error, net |-> r.net, wrote |-> r.wrote,
                paths |-> IF r.raised THEN <<>> ELSE r.paths, processed |-> r.processed,
                applied |-> r.applied,
                pending |-> [firmwares |-> r.pending_firmwares.list,
                             apps |-> r.pending_apps.list]]
    /\ UNCHANGED <<part_number, max_nb_apps, apps, firmware_versions, datatypes,
                   fw_catalog, app_catalog, bridge>>

update_firmwares(ids, names, force_reload, world) ==
    Finish("update_firmwares", [ids |-> ids, names |-> names, force_reload |-> force_reload],
           UpdateFirmwaresCall(Run(firmwares_updates, apps_updates, xml_raw, xml_file, files),
                               ids, names, force_reload, Env(TRUE, world)))

update_apps(has_cookie, ids, names, force_reload, world) ==
    Finish("update_apps", [ids |-> ids, names |-> names, force_reload |-> force_reload],
           UpdateAppsCall(Run(firmwares_updates, apps_updates, xml_raw, xml_file, files),
                          ids, names, force_reload, Env(has_cookie, world)))

update(has_cookie, ids, names, force_reload, world) ==
    Finish("update", [ids |-> ids, names |-> names, force_reload |-> force_reload],
           UpdateCall(Run(firmwares_updates, apps_updates, xml_raw, xml_file, files),
                      ids, names, force_reload, Env(has_cookie, world)))

\* ------------------------------------------------------------------------
\* The update lifecycle (Spec): a device with two installed firmware parts
\* and one installed app; the catalog offers a newer file for the first n
\* parts, with any installation orders up to MaxOrder, and a newer version
\* of the app; pulls and updates are called in any sequence, with every
\* selection mode, while the endpoints answer or fail
\* ------------------------------------------------------------------------
FirmwareParts == <<"006-B0001-00", "006-B0002-00">>

FirmwareNames == <<"System Software", "Sensor Hub">>

InstalledVersionXml == [Major |-> 1, Minor |-> 0]

OfferedVersion == VersionString(1, 1)

OfferedFirmware(i, order) ==
    [PartNumber |-> FirmwareParts[i], SoftwareVersion |-> OfferedVersion, DataType |-> "Firmware",
     InstallationOrder |-> order, Url |-> AbsoluteUrl(FirmwareParts[i], OfferedVersion),
     DisplayName |-> FirmwareNames[i],
     FilePathOnUnit |-> <<"GARMIN", "\\", "REMOTESW", "\\", FirmwareParts[i]>>]

LifecycleManifest ==
    [model_part |-> "006-B9999-00", max_apps |-> 2,
     update_files |-> [i \in 1..Len(FirmwareParts) |->
                          [PartNumber |-> FirmwareParts[i], Major |-> InstalledVersionXml.Major,
                           Minor |-> InstalledVersionXml.Minor]],
     apps |-> <<InstalledAppXml("guid-a", 1)>>, datatypes |-> DefaultDatatypesXml]

LifecycleFirmwareCatalogs ==
    UNION {{[i \in 1..n |-> OfferedFirmware(i, order[i])] : order \in [1..n -> 1..MaxOrder]} :
                n \in 0..Len(FirmwareParts)}

LifecycleAppCatalog ==
    <<[appId |-> "guid-a", type |-> "watchface", latestInternalVersionNumber |-> 2,
       name |-> "Face", size |-> 1]>>

AllAnswer ==
    [fw_check |-> [status |-> 200, body |-> "options"],
     app_check |-> [status |-> 200, body |-> "list"],
     fw_down |-> {}, fw_content |-> <<7>>, version_ok |-> TRUE, app_down |-> {},
     app_binary |-> [length |-> 1 + AppSizeOverhead, data |-> "prg"]]

\* every endpoint answers, or the first firmware file cannot be downloaded
Worlds ==
    {AllAnswer,
     [AllAnswer EXCEPT !.fw_down = {DownloadUrl(FirmwareParts[1], OfferedVersion)}]}

Selections ==
    {[ids |-> NoneList, names |-> NoneList],
     [ids |-> SomeList(<<0>>), names |-> NoneList],
     [ids |-> SomeList(<<1, 0>>), names |-> NoneList],
     [ids |-> SomeList(<<Len(FirmwareParts) + 1>>), names |-> NoneList],
     [ids |-> NoneList, names |-> SomeList(<<FirmwareNames[1]>>)],
     [ids |-> NoneList, names |-> SomeList(<<FirmwareNames[2], FirmwareNames[1]>>)],
     [ids |-> SomeList(<<0>>), names |-> SomeList(<<FirmwareNames[1]>>)]}

\* every endpoint answers, or the binary of the app cannot be downloaded
AppWorlds ==
    {AllAnswer, [AllAnswer EXCEPT !.app_down = {LifecycleAppCatalog[1].appId}]}

AppSelections ==
    {[ids |-> NoneList, names |-> NoneList],
     [ids |-> SomeList(<<0>>), names |-> NoneList],
     [ids |-> NoneList, names |-> SomeList(<<LifecycleAppCatalog[1].name>>)],
     [ids |-> SomeList(<<0>>), names |-> SomeList(<<LifecycleAppCatalog[1].name>>)]}

Init ==
    /\ DeviceInit(LifecycleManifest)
    /\ fw_catalog \in LifecycleFirmwareCatalogs
    /\ app_catalog = LifecycleAppCatalog
    /\ files = << >>
    /\ last = NoCall
    /\ bridge = NoBridge

Next ==
    \/ \E force_reload \in BOOLEAN, status \in HttpStatuses :
            get_firmwares_updates(force_reload, status, "options")
    \/ \E selection \in Selections, force_reload \in BOOLEAN :
            update_firmwares(selection.ids, selection.names, force_reload, AllAnswer)
    \/ \E selection \in Selections, world \in Worlds \ {AllAnswer} :
            update_firmwares(selection.ids, selection.names, FALSE, world)
    \/ \E selection \in AppSelections, force_reload \in BOOLEAN :
            update_apps(TRUE, selection.ids, selection.names, force_reload, AllAnswer)
    \/ \E selection \in AppSelections, world \in AppWorlds \ {AllAnswer} :
            update_apps(TRUE, selection.ids, selection.names, FALSE, world)
    \/ \E selection \in Selections, force_reload \in BOOLEAN :
            update(TRUE, selection.ids, selection.names, force_reload, AllAnswer)

Spec == Init /\ [][Next]_vars

\* ------------------------------------------------------------------------
\* The manifest writes (SpecManifest): the device of the lifecycle, its
\* manifest written with the line endings "\n" or "\r\n"; every pending
\* firmware file and app update is applied and new watch faces are installed,
\* every endpoint answering
\* ------------------------------------------------------------------------
\* the app of the lifecycle as an install names its file
InstalledWatchFaceXml ==
    [AppName |-> "guid-a", StoreId |-> "guid-a", AppType |-> "watchface", Version |-> 1,
     FileName |-> <<"guid-a", "PRG">>]

LfManifest ==
    [model_part |-> LifecycleManifest.model_part, max_apps |-> LifecycleManifest.max_apps,
     update_files |-> LifecycleManifest.update_files, apps |-> <<InstalledWatchFaceXml>>,
     datatypes |-> LifecycleManifest.datatypes]

CrlfManifest ==
    [model_part |-> LifecycleManifest.model_part, max_apps |-> LifecycleManifest.max_apps,
     update_files |-> LifecycleManifest.update_files, apps |-> <<InstalledWatchFaceXml>>,
     datatypes |-> LifecycleManifest.datatypes, crlf |-> TRUE]

InitManifest ==
    /\ \E manifest \in {LfManifest, CrlfManifest} : DeviceInit(manifest)
    /\ fw_catalog \in LifecycleFirmwareCatalogs
    /\ app_catalog = LifecycleAppCatalog
    /\ files = << >>
    /\ last = NoCall
    /\ bridge = NoBridge

NextManifest ==
    \/ update_firmwares(NoneList, NoneList, FALSE, AllAnswer)
    \/ update_apps(TRUE, NoneList, NoneList, FALSE, AllAnswer)
    \/ \E arg \in LocationArguments :
            install(TRUE, arg, AllAnswered(AppInfo("WatchFace", << >>)))

SpecManifest == InitManifest /\ [][NextManifest]_vars

\* ------------------------------------------------------------------------
\* The installed-app list (SpecRegistry): the device of SpecManifest with
\* room for more apps; apps already installed and new ones are installed,
\* given as objects or by GUID, and the pending updates are applied
\* ------------------------------------------------------------------------
RegistryManifest ==
    [model_part |-> LfManifest.model_part, max_apps |-> MaxApps + 1,
     update_files |-> LfManifest.update_files, apps |-> LfManifest.apps,
     datatypes |-> LfManifest.datatypes]

RegistryArguments ==
    {[mode |-> "app", app |-> AppObject(guid, "WatchFace", "version-1", SomeDict(<< >>)),
      ciq_guid |-> NoneStr, ciq_url |-> <<>>] : guid \in {"guid-a", "guid-n", "guid-m"}}
    \cup {[mode |-> "ciq_guid", app |-> NoApp, ciq_guid |-> guid, ciq_url |-> <<>>] :
                guid \in {"guid-a", "guid-n"}}

InitRegistry ==
    /\ DeviceInit(RegistryManifest)
    /\ fw_catalog \in {<<>>, <<OfferedFirmware(1, 1)>>}
    /\ app_catalog = LifecycleAppCatalog
    /\ files = << >>
    /\ last = NoCall
    /\ bridge = NoBridge

NextRegistry ==
    \/ \E arg \in RegistryArguments :
            install(TRUE, arg, AllAnswered(AppInfo("WatchFace", << >>)))
    \/ \E force_reload \in BOOLEAN :
            update_apps(TRUE, NoneList, NoneList, force_reload, AllAnswer)
    \/ \E force_reload \in BOOLEAN :
            update(TRUE, NoneList, NoneList, force_reload, AllAnswer)

SpecRegistry == InitRegistry /\ [][NextRegistry]_vars

\* ------------------------------------------------------------------------
\* The selections by index (SpecIds): the device and the catalogs of the
\* lifecycle, every endpoint answering; the three update calls are given
\* lists of one or two distinct indexes, in ascending and descending order
\* ------------------------------------------------------------------------
IdSelections ==
    {SomeList(<<0>>), SomeList(<<1>>), SomeList(<<2>>),
     SomeList(<<0, 1>>), SomeList(<<1, 0>>), SomeList(<<0, 2>>)}

NextIds ==
    \/ \E ids \in IdSelections, force_reload \in BOOLEAN :
            update_firmwares(ids, NoneList, force_reload, AllAnswer)
    \/ \E ids \in IdSelections, force_reload \in BOOLEAN :
            update_apps(TRUE, ids, NoneList, force_reload, AllAnswer)
    \/ \E ids \in IdSelections, force_reload \in BOOLEAN :
            update(TRUE, ids, NoneList, force_reload, AllAnswer)

SpecIds == Init /\ [][NextIds]_vars

\* ------------------------------------------------------------------------
\* The selections of apps by name (SpecNames): a device with three
\* installed watch faces; the store has, for each, the installed version
\* or a newer one; update_apps is given one or two names, every endpoint
\* answering
\* ------------------------------------------------------------------------
NamedGuids == <<"guid-a", "guid-b", "guid-c">>

NamedApps == <<"Face A", "Face B", "Face C">>

NamesManifest ==
    [model_part |-> LifecycleManifest.model_part, max_apps |-> Len(NamedGuids),
     update_files |-> LifecycleManifest.update_files,
     apps |-> [i \in 1..Len(NamedGuids) |-> InstalledAppXml(NamedGuids[i], 1)],
     datatypes |-> DefaultDatatypesXml]

NamesCatalogs ==
    {[i \in 1..Len(NamedGuids) |->
        [appId |-> NamedGuids[i], type |-> "watchface",
         latestInternalVersionNumber |-> latest[i], name |-> NamedApps[i], size |-> 1]] :
            latest \in [1..Len(NamedGuids) -> 1..2]}

NameSelections ==
    {SomeList(<<NamedApps[1]>>), SomeList(<<NamedApps[2]>>),
     SomeList(<<NamedApps[1], NamedApps[2]>>), SomeList(<<NamedApps[1], NamedApps[3]>>),
     SomeList(<<NamedApps[3], NamedApps[2]>>)}

InitNames ==
    /\ DeviceInit(NamesManifest)
    /\ fw_catalog = <<>>
    /\ app_catalog \in NamesCatalogs
    /\ files = << >>
    /\ last = NoCall
    /\ bridge = NoBridge

NextNames ==
    \E names \in NameSelections, force_reload \in BOOLEAN :
        update_apps(TRUE, NoneList, names, force_reload, AllAnswer)

SpecNames == InitNames /\ [][NextNames]_vars

\* ------------------------------------------------------------------------
\* The firmware commit (SpecCommit): manifests with no, one or two
\* UpdateFile fragments of the part the catalog offers, at any installed
\* version, the device Model having that part number or another one
\* ------------------------------------------------------------------------
UpdateFileXml(part, major, minor) == [PartNumber |-> part, Major |-> major, Minor |-> minor]

CommitUpdateFiles ==
    {<<>>, <<UpdateFileXml(FirmwareParts[2], 1, 0)>>}
    \cup UNION {{<<UpdateFileXml(FirmwareParts[1], M, N)>>,
                  <<UpdateFileXml(FirmwareParts[1], M, N), UpdateFileXml(FirmwareParts[2], 1, 0)>>,
                  <<UpdateFileXml(FirmwareParts[1], M, N), UpdateFileXml(FirmwareParts[1], 0, 0)>>} :
                    M \in 0..MaxMajor, N \in 0..MaxMinor}

CommitManifests ==
    {[model_part |-> model_part, max_apps |-> LfManifest.max_apps,
      update_files |-> update_files, apps |-> LfManifest.apps,
      datatypes |-> LfManifest.datatypes] :
        model_part \in {LfManifest.model_part, FirmwareParts[1]},
        update_files \in CommitUpdateFiles}

CommitSelections ==
    {[ids |-> NoneList, names |-> NoneList],
     [ids |-> SomeList(<<0>>), names |-> NoneList],
     [ids |-> NoneList, names |-> SomeList(<<FirmwareNames[1]>>)]}

InitCommit ==
    /\ \E manifest \in CommitManifests : DeviceInit(manifest)
    /\ fw_catalog \in {<<OfferedFirmware(1, 1)>>, <<OfferedFirmware(1, 1), OfferedFirmware(2, 2)>>}
    /\ app_catalog = LifecycleAppCatalog
    /\ files = << >>
    /\ last = NoCall
    /\ bridge = NoBridge

NextCommit ==
    \E selection \in CommitSelections, force_reload \in BOOLEAN, world \in Worlds :
        update_firmwares(selection.ids, selection.names, force_reload, world)

SpecCommit == InitCommit /\ [][NextCommit]_vars

\* ------------------------------------------------------------------------
\* AppUpdate.process on its own (SpecAppProcess): a caller's direct use,
\* device.get_apps_updates()[id].process(root, url_name, session_cookie), for
\* one pending update of any expected size (or none) and a binary of any
\* length; the file of the app may be on the device already
\* ------------------------------------------------------------------------
MaxSize == 2

app_process(id, env) ==
    /\ ~apps_updates.is_none
    /\ id \in 0..(Len(apps_updates.list) - 1)
    /\ LET app_update == apps_updates.list[id + 1]
           r == AppProcess(app_update, DeviceRoot, env, files)
           arg == [update |-> app_update, env |-> env]
       IN  /\ files' = r.files
           /\ last' = IF r.raised THEN Raised("app_process", arg, r.error, r.net, r.wrote)
                      ELSE Returned("app_process", arg, r.net, r.wrote)
    /\ UNCHANGED <<deviceVars, firmwares_updates, apps_updates, fw_catalog, app_catalog, bridge>>

AppProcessManifest ==
    [model_part |-> "006-B9999-00", max_apps |-> 2,
     update_files |-> <<[PartNumber |-> "006-B0001-00", Major |-> 1, Minor |-> 0]>>,
     apps |-> <<InstalledAppXml("guid-a", 1)>>, datatypes |-> DefaultDatatypesXml]

AppProcessCatalogs ==
    {<<[appId |-> "guid-a", type |-> "watchface", latestInternalVersionNumber |-> 2,
        name |-> <<"guid-a", "watchface">>, size |-> size]>> :
            size \in {NoneInt} \cup 1..MaxSize}

\* the file of guid-a on the device
InstalledAppPath == PathJoin(DeviceRoot, PathJoin(DefaultDatatypesXml[1].Files[1].Path, <<"guid-a">>))

InstalledBinary == [length |-> 1 + AppSizeOverhead, data |-> "old"]

\* binaries of the expected sizes without and with the overhead, and one more
AppBinaries ==
    {[length |-> n, data |-> "new"] : n \in 0..(MaxSize + 1)}
    \cup {[length |-> n + AppSizeOverhead, data |-> "new"] : n \in 0..(MaxSize + 1)}

\* what the version endpoint and the binary endpoint answer
AppProcessEnvs ==
    {[version_ok |-> version_ok, app_down |-> app_down, app_binary |-> binary] :
        version_ok \in BOOLEAN, app_down \in {{}, {"guid-a"}}, binary \in AppBinaries}

InitAppProcess ==
    /\ DeviceInit(AppProcessManifest)
    /\ fw_catalog = <<>>
    /\ app_catalog \in AppProcessCatalogs
    /\ files \in {<< >>, WriteFile(<< >>, InstalledAppPath, InstalledBinary)}
    /\ last = NoCall
    /\ bridge = NoBridge

NextAppProcess ==
    \/ get_apps_updates(TRUE, FALSE, 200, "list")
    \/ \E env \in AppProcessEnvs : app_process(0, env)

SpecAppProcess == InitAppProcess /\ [][NextAppProcess]_vars

\* ------------------------------------------------------------------------
\* Properties of the firmware diff (checked under SpecFwDiff)
\* ------------------------------------------------------------------------
\* the last call was a get_firmwares_updates that queried the endpoint and returned
FreshFirmwarePull ==
    /\ last.op = "get_firmwares_updates"
    /\ last.outcome = "returned"
    /\ last.net = <<FirmwareCheckRequest>>

\* the pending list holds an update built from the candidate
ListedFirmware(update_json) ==
    \E i \in 1..Len(firmwares_updates.list) :
        LET u == firmwares_updates.list[i]
        IN  /\ u.part_number = update_json.PartNumber
            /\ u.url = update_json.Url.Url
            /\ u.url_is_relative = update_json.Url.IsRelative
            /\ u.md5 = update_json.Url.Md5
            /\ u.size = update_json.Url.Size
            /\ u.name = update_json.DisplayName
            /\ u.update_type = update_json.DataType
            /\ u.installation_order = update_json.InstallationOrder
            /\ u.major = DecimalMajor(update_json.SoftwareVersion)

IsFirmwareCandidate(update_json) ==
    /\ update_json.SoftwareVersion.numeric
    /\ update_json.DataType \in {"PrimaryFirmware", "Firmware"}

\* the decimal version of the candidate is (M, N) or lower
NotAbove(version, M, N) ==
    \/ DecimalMajor(version) < M
    \/ (DecimalMajor(version) = M /\ DecimalMinor(version) <= N)

\* the decimal version of the candidate is (M, N + 1) or (M + 1, 0)
NextAfter(version, M, N) ==
    \/ (DecimalMajor(version) = M /\ DecimalMinor(version) = N + 1)
    \/ (DecimalMajor(version) = M + 1 /\ DecimalMinor(version) = 0)

\* C1: after get_firmwares_updates has pulled the catalog, no candidate whose
\* part number is installed with pair (M, N) and whose version is (M, N) or
\* lower is in the pending list.
C1_NotNewerNeverPending ==
    FreshFirmwarePull =>
        \A i \in 1..Len(fw_catalog) :
            LET c == fw_catalog[i]
            IN  (/\ c.SoftwareVersion.numeric
                 /\ c.PartNumber \in DOMAIN firmware_versions
                 /\ NotAbove(c.SoftwareVersion, firmware_versions[c.PartNumber][1],
                             firmware_versions[c.PartNumber][2]))
                => ~ListedFirmware(c)

\* a firmware candidate of exactly the installed version was pulled and left out
C1_Witness ==
    /\ FreshFirmwarePull
    /\ \E i \in 1..Len(fw_catalog) :
        LET c == fw_catalog[i]
        IN  /\ IsFirmwareCandidate(c)
            /\ c.PartNumber \in DOMAIN firmware_versions
            /\ <<DecimalMajor(c.SoftwareVersion), DecimalMinor(c.SoftwareVersion)>>
                   = firmware_versions[c.PartNumber]
            /\ ~ListedFirmware(c)

\* C2: after get_firmwares_updates has pulled the catalog, every firmware
\* candidate whose part number is installed with pair (M, N) and whose version
\* is (M, N + 1) or (M + 1, 0) is in the pending list.
C2_NextVersionAlwaysPending ==
    FreshFirmwarePull =>
        \A i \in 1..Len(fw_catalog) :
            LET c == fw_catalog[i]
            IN  (/\ IsFirmwareCandidate(c)
                 /\ c.PartNumber \in DOMAIN firmware_versions
                 /\ NextAfter(c.SoftwareVersion, firmware_versions[c.PartNumber][1],
                              firmware_versions[c.PartNumber][2]))
                => ListedFirmware(c)

\* C3 (as stated): after get_firmwares_updates has pulled the catalog, every
\* candidate whose part number is absent from the installed firmware-version
\* map is in the pending list, whatever the value of its (numeric) version.
C3_AbsentPartAlwaysPending ==
    FreshFirmwarePull =>
        \A i \in 1..Len(fw_catalog) :
            (fw_catalog[i].SoftwareVersion.numeric
             /\ fw_catalog[i].PartNumber \notin DOMAIN firmware_versions)
                => ListedFirmware(fw_catalog[i])

\* C3 (amended): after get_firmwares_updates has pulled the catalog, every
\* candidate with a numeric version and the type PrimaryFirmware or Firmware
\* whose part number is absent from the installed firmware-version map is in
\* the pending list, whatever its version value.
C3_AbsentFirmwarePartAlwaysPending ==
    FreshFirmwarePull =>
        \A i \in 1..Len(fw_catalog) :
            (IsFirmwareCandidate(fw_catalog[i])
             /\ fw_catalog[i].PartNumber \notin DOMAIN firmware_versions)
                => ListedFirmware(fw_catalog[i])

\* a firmware candidate of the lowest version 0.00 for an absent part is pending
C3_Witness ==
    /\ FreshFirmwarePull
    /\ \E i \in 1..Len(fw_catalog) :
        LET c == fw_catalog[i]
        IN  /\ IsFirmwareCandidate(c)
            /\ c.PartNumber \notin DOMAIN firmware_versions
            /\ c.SoftwareVersion = VersionString(0, 0)
            /\ ListedFirmware(c)

\* ------------------------------------------------------------------------
\* Properties of the app diff (checked under SpecAppDiff)
\* ------------------------------------------------------------------------
\* the last call was a get_apps_updates that queried the endpoint and got a list
AppCatalogPulled ==
    /\ last.op = "get_apps_updates"
    /\ last.net = <<AppCheckRequest>>
    /\ last.arg.status = 200
    /\ last.arg.body = "list"

InstalledGuids == {apps[i].guid : i \in 1..Len(apps)}

\* the installed version of a GUID (of its first installed app)
InstalledVersion(guid) ==
    apps[CHOOSE i \in 1..Len(apps) :
            apps[i].guid = guid /\ \A k \in 1..(i - 1) : apps[k].guid # guid].version_int

\* the category of the entry maps to exactly one File Location of the manifest
ResolvesToOneLocation(update_json) ==
    \E i \in 1..Len(xml_file.datatypes) :
        /\ xml_file.datatypes[i].Name =
              (CASE update_json.type = "watchface" -> "IQWatchFaces"
                 [] update_json.type = "watchapp" -> "IQWatchApps"
                 [] update_json.type = "widget" -> "IQWidgets"
                 [] update_json.type = "datafield" -> "IQDataFields"
                 [] OTHER -> "")
        /\ Len(xml_file.datatypes[i].Files) = 1

\* the pending updates built from the entry
AppUpdatesOf(update_json) ==
    {i \in 1..Len(apps_updates.list) :
        /\ apps_updates.list[i].app_guid = update_json.appId
        /\ apps_updates.list[i].version_int = update_json.latestInternalVersionNumber
        /\ apps_updates.list[i].name = update_json.name
        /\ apps_updates.list[i].size = update_json.size}

\* the entries of the catalog equal to the entry
SameEntries(update_json) == {j \in 1..Len(app_catalog) : app_catalog[j] = update_json}

\* C5: after get_apps_updates has pulled the catalog, an entry whose GUID is
\* installed and whose category resolves to exactly one File Location is in
\* the pending list iff its version is strictly greater than the installed
\* one, and then once per occurrence of the entry: one entry, one AppUpdate.
C5_PendingIffStrictlyNewer ==
    (AppCatalogPulled /\ last.outcome = "returned") =>
        \A j \in 1..Len(app_catalog) :
            LET e == app_catalog[j]
            IN  (e.appId \in InstalledGuids /\ ResolvesToOneLocation(e)) =>
                    IF e.latestInternalVersionNumber > InstalledVersion(e.appId)
                    THEN Cardinality(AppUpdatesOf(e)) = Cardinality(SameEntries(e))
                    ELSE AppUpdatesOf(e) = {}

\* one entry newer than the installed app gave exactly one pending AppUpdate,
\* next to an entry of the installed version that gave none
C5_Witness ==
    /\ AppCatalogPulled
    /\ last.outcome = "returned"
    /\ Len(apps_updates.list) = 1
    /\ \E j, k \in 1..Len(app_catalog) :
        /\ app_catalog[j].appId \in InstalledGuids
        /\ app_catalog[j].appId = apps_updates.list[1].app_guid
        /\ app_catalog[j].latestInternalVersionNumber > InstalledVersion(app_catalog[j].appId)
        /\ app_catalog[k].appId \in InstalledGuids
        /\ ResolvesToOneLocation(app_catalog[k])
        /\ app_catalog[k].latestInternalVersionNumber = InstalledVersion(app_catalog[k].appId)

\* C6: when get_apps_updates has pulled the catalog, the call returns, no
\* pending update references a GUID that is not installed, and the entries of
\* installed GUIDs are pending exactly as their category and version decide.
C6_UnmatchedExcludedOthersKept ==
    AppCatalogPulled =>
        /\ last.outcome = "returned"
        /\ \A i \in 1..Len(apps_updates.list) : apps_updates.list[i].app_guid \in InstalledGuids
        /\ \A j \in 1..Len(app_catalog) :
            LET e == app_catalog[j]
            IN  e.appId \in InstalledGuids =>
                    ((AppUpdatesOf(e) # {}) <=>
                        (/\ ResolvesToOneLocation(e)
                         /\ e.latestInternalVersionNumber > InstalledVersion(e.appId)))

\* an entry of a GUID that is not installed came first and the newer entry
\* of an installed GUID after it is pending
C6_Witness ==
    /\ AppCatalogPulled
    /\ last.outcome = "returned"
    /\ Len(app_catalog) = 2
    /\ app_catalog[1].appId \notin InstalledGuids
    /\ app_catalog[1].latestInternalVersionNumber > 1
    /\ app_catalog[2].appId \in InstalledGuids
    /\ AppUpdatesOf(app_catalog[2]) # {}

\* ------------------------------------------------------------------------
\* Properties of FirmwareUpdate.process (checked under SpecProcess)
\* ------------------------------------------------------------------------
\* C7: every process call on an update whose URL is flagged relative raises
\* the one relative-URL error, having made no request and written no file.
C7_RelativeUrlFailsFirst ==
    [][(last'.op = "process" /\ last'.arg.update.url_is_relative) =>
            /\ last'.outcome = "raised"
            /\ last'.error = RelativeUrlError
            /\ last'.net = <<>>
            /\ last'.wrote = {}
            /\ files' = files]_vars

\* process was called on a relative update while the endpoint would have
\* answered 200 with content of the declared size and checksum
C7_Witness ==
    /\ last.op = "process"
    /\ last.arg.update.url_is_relative
    /\ last.arg.status = 200
    /\ last.arg.content = <<7>>
    /\ last.outcome = "raised"

\* C8: every process call whose download succeeded with a byte count that
\* differs from the declared size, or with an MD5 that differs from the
\* declared checksum, raises an integrity error and leaves the device
\* filesystem as it was.
C8_IntegrityFailureWritesNothing ==
    [][(/\ last'.op = "process"
        /\ ~last'.arg.update.url_is_relative
        /\ last'.arg.status = 200
        /\ \/ (/\ last'.arg.update.size # NoneInt
               /\ last'.arg.update.size # Len(last'.arg.content))
           \/ (/\ last'.arg.update.md5 # NoneStr
               /\ last'.arg.update.md5 # Md5Hex(last'.arg.content)))
       =>  /\ last'.outcome = "raised"
           /\ last'.error \in {SizeMismatchError, Md5MismatchError}
           /\ last'.wrote = {}
           /\ files' = files]_vars

\* a download of the declared size whose MD5 differs was refused
C8_Witness ==
    /\ last.op = "process"
    /\ last.arg.status = 200
    /\ last.arg.update.size = Len(last.arg.content)
    /\ last.arg.update.md5 # NoneStr
    /\ last.arg.update.md5 # Md5Hex(last.arg.content)
    /\ last.error = Md5MismatchError

\* ------------------------------------------------------------------------
\* Properties of install (checked under SpecInstall)
\* ------------------------------------------------------------------------
InstallOf(l, installed) ==
    /\ l.op = "install"
    /\ \E i \in 1..Len(installed) : installed[i].guid = l.arg.guid

\* C9: an install of an application whose GUID is already in the installed
\* list is rejected without any network call, whether the application is
\* given as an object or named by keyword arguments
C9_InstalledGuidRejectedOffline ==
    [][InstallOf(last', apps) => (last'.outcome = "raised" /\ last'.net = <<>>)]_vars

\* C10: an install attempted when the number of installed apps equals the
\* capacity raises, and leaves the Descriptor and the manifest unchanged
C10_FullDeviceRejects ==
    [][(last'.op = "install" /\ Len(apps) = max_nb_apps) =>
            /\ last'.outcome = "raised"
            /\ last'.error = MaxAppsError
            /\ apps' = apps
            /\ xml_raw' = xml_raw
            /\ xml_file' = xml_file
            /\ <<part_number, max_nb_apps, firmware_versions, datatypes,
                 firmwares_updates, apps_updates>>' =
               <<part_number, max_nb_apps, firmware_versions, datatypes,
                 firmwares_updates, apps_updates>>]_vars

C10_Witness ==
    /\ last.op = "install"
    /\ last.error = MaxAppsError
    /\ Len(apps) = max_nb_apps

\* ------------------------------------------------------------------------
\* Properties of the update lifecycle (checked under Spec)
\* ------------------------------------------------------------------------
SortedByInstallationOrder(list) ==
    \A i, j \in 1..Len(list) : i < j => list[i].installation_order <= list[j].installation_order

\* C4: in every reachable state after any sequence of get_firmwares_updates,
\* update_firmwares and update calls, the pending firmware list, when it is
\* not None, is sorted ascending by installation order
C4_PendingFirmwaresSorted ==
    ~firmwares_updates.is_none => SortedByInstallationOrder(firmwares_updates.list)

\* candidates received in descending order are listed in ascending order,
\* and the list is still sorted after an update call removed from it
C4_Witness ==
    /\ Len(fw_catalog) >= 2
    /\ fw_catalog[1].InstallationOrder > fw_catalog[2].InstallationOrder
    /\ ~firmwares_updates.is_none
    /\ Len(firmwares_updates.list) >= 2
    /\ firmwares_updates.list[1].installation_order < firmwares_updates.list[2].installation_order
    /\ firmwares_updates.list[1].part_number = fw_catalog[2].PartNumber

\* the call l worked on the pending lists l.pending and left the lists fu, au:
\* the updates it removed from a pending list
RemovedBy(l, fu, au) ==
    (Range(l.pending.firmwares) \ Range(fu.list)) \cup (Range(l.pending.apps) \ Range(au.list))

\* C12: after every update_firmwares or update_apps call, in every selection
\* mode and also when a later item of the call failed, an item has been
\* removed from the pending list exactly when it has been successfully
\* applied
C12_RemovedExactlyWhenApplied ==
    [][last'.op \in {"update_firmwares", "update_apps"} =>
            RemovedBy(last', firmwares_updates', apps_updates') = Range(last'.applied)]_vars

\* C13: after update_firmwares has processed an update for part P with
\* version (major, minor), the in-memory firmware-version map entry of P and
\* the UpdateFile of P in the manifest both hold (major, minor)
C13_FirmwareVersionRecorded ==
    [][last'.op = "update_firmwares" =>
            \A k \in 1..Len(last'.applied) :
                LET u == last'.applied[k]
                IN  /\ u.part_number \in DOMAIN firmware_versions'
                    /\ firmware_versions'[u.part_number] = <<u.major, u.minor>>
                    /\ \E i \in 1..Len(xml_file'.update_files) :
                            /\ xml_file'.update_files[i].PartNumber = u.part_number
                            /\ xml_file'.update_files[i].Major = u.major
                            /\ xml_file'.update_files[i].Minor = u.minor]_vars

\* C14: after update_apps has processed an update for GUID G to version V, the
\* in-memory app of G has version V and the App fragment of G in the manifest
\* has Version V, so that a later get_apps_updates sends V as the installed
\* version
C14_AppVersionRecorded ==
    [][last'.op = "update_apps" =>
            \A k \in 1..Len(last'.applied) :
                LET u == last'.applied[k]
                IN  /\ \E i \in 1..Len(apps') :
                            apps'[i].guid = u.app_guid /\ apps'[i].version_int = u.version_int
                    /\ \E i \in 1..Len(xml_file'.apps) :
                            /\ xml_file'.apps[i].StoreId = u.app_guid
                            /\ xml_file'.apps[i].Version = u.version_int]_vars

\* the updates of a sequence of processed updates that are firmware updates
FirmwareProcessed(processed) ==
    SelectSeq(processed, LAMBDA u : "installation_order" \in DOMAIN u)

\* C15: in every update_firmwares and update call, in any selection mode, the
\* FirmwareUpdate.process calls happen one after the other in ascending
\* installation order
C15_ProcessedInInstallationOrder ==
    [][last'.op \in {"update_firmwares", "update"} =>
            SortedByInstallationOrder(FirmwareProcessed(last'.processed))]_vars

\* the call l was given both a list of ids and a list of names
BothSupplied(l) ==
    /\ l.op \in {"update_firmwares", "update_apps", "update"}
    /\ ~l.arg.ids.is_none
    /\ ~l.arg.names.is_none

\* C16: update_firmwares, update_apps and update raise when both ids and
\* names are supplied, no update having been processed; when force_reload is
\* false they raise before anything else is done, leaving both pending lists,
\* the device files and the manifest unchanged
C16_BothIdsAndNamesRejected ==
    [][BothSupplied(last') =>
            /\ last'.outcome = "raised"
            /\ last'.processed = <<>>
            /\ last'.wrote = {}
            /\ ~last'.arg.force_reload =>
                    /\ last'.error = BothError
                    /\ last'.net = <<>>
                    /\ firmwares_updates' = firmwares_updates
                    /\ apps_updates' = apps_updates
                    /\ files' = files
                    /\ xml_raw' = xml_raw
                    /\ xml_file' = xml_file]_vars

\* update was called with both while a firmware update and an app update
\* were pending and named by the call
C16_Witness ==
    /\ BothSupplied(last)
    /\ last.op = "update"
    /\ ~last.arg.force_reload
    /\ last.error = BothError
    /\ Len(firmwares_updates.list) > last.arg.ids.list[1]
    /\ firmwares_updates.list[1].name = last.arg.names.list[1]
    /\ Len(apps_updates.list) > 0

\* ------------------------------------------------------------------------
\* Properties of the diffs over catalogs with unparsable candidates (checked
\* under SpecCandidates)
\* ------------------------------------------------------------------------
ParsableFirmwares(catalog) == SelectSeq(catalog, LAMBDA c : ~UnparsableFirmware(c))

ParsableApps(catalog, table) == SelectSeq(catalog, LAMBDA c : ~UnparsableApp(c, table))

LastServed(b) == b.served[Len(b.served)]

NumberServed(b, method) == Cardinality({i \in 1..Len(b.served) : b.served[i].method = method})

\* C18: when the vendor's binary-settings endpoint answers the forwarded POST
\* with an HTTP error, the bridge stops and the error propagates out of
\* download_app_settings (the call does not keep waiting)
C18_VendorErrorEndsBridge ==
    [][(/\ Len(bridge'.served) > Len(bridge.served)
        /\ LastServed(bridge').method = "POST"
        /\ LastServed(bridge').vendor.status # 200)
       => (bridge'.pc = "raised" /\ bridge'.error = SettingsBinaryError)]_vars

\* C19: download_app_settings blocks until exactly one GET and exactly one
\* POST have been served and then stops listening: never more than one GET,
\* never a request after the POST, and one of each when it returns
C19_OneGetOnePost ==
    /\ NumberServed(bridge, "GET") <= 1
    /\ NumberServed(bridge, "POST") <= 1
    /\ \A i \in 1..Len(bridge.served) : bridge.served[i].method = "POST" => i = Len(bridge.served)
    /\ bridge.pc = "returned" =>
            (NumberServed(bridge, "GET") = 1 /\ NumberServed(bridge, "POST") = 1)

\* the POSTs the bridge answered with "OK"
AnsweredOk(b) == {i \in 1..Len(b.served) : b.served[i].sent = "OK"}

\* C20: in the package's bridge (src/GSL/ciq.py) the POST handler answers 200
\* "OK" and signals completion only after the vendor's response body has been
\* written to the target settings path; download_app_settings never returns
\* normally before that file is written
C20_AnsweredOnlyAfterWritten ==
    bridge.impl = Package =>
        /\ (bridge.done \/ bridge.pc = "returned") => AnsweredOk(bridge) # {}
        /\ AnsweredOk(bridge) # {} =>
                /\ bridge.output_path \in DOMAIN files
                /\ \E i \in AnsweredOk(bridge) :
                        /\ \A k \in AnsweredOk(bridge) : k <= i
                        /\ files[bridge.output_path] = bridge.served[i].vendor.content

\* the call returned after a GET, a POST the vendor rejected and a POST it
\* accepted, the file holding the accepted answer
C20_Witness ==
    /\ bridge.impl = Package
    /\ bridge.pc = "returned"
    /\ Len(bridge.served) = 3
    /\ bridge.served[1].method = "GET"
    /\ bridge.served[2].raised = SettingsBinaryError
    /\ files[bridge.output_path] = bridge.served[3].vendor.content

LastRequest(l) == IF Len(l.net) = 0 THEN "" ELSE l.net[Len(l.net)][1]

\* the endpoint an install asked last answered with a failure
InstallStepFailed(l) ==
    /\ l.op = "install"
    /\ LastRequest(l) \in l.arg.failed

\* C11: when the metadata acquisition, the binary download or the settings
\* capture of an install fails, the install raises and the app is recorded
\* neither in the in-memory installed-app list nor in the manifest file
C11_FailedInstallRecordsNothing ==
    [][InstallStepFailed(last') =>
            /\ last'.outcome = "raised"
            /\ apps' = apps
            /\ xml_raw' = xml_raw
            /\ xml_file' = xml_file]_vars

\* ------------------------------------------------------------------------
\* Properties of the File Locations (checked under SpecLocations)
\* ------------------------------------------------------------------------
\* the File Locations the manifest declares for a datatype key: the File
\* elements of every DataType block of that Name
LocationsOf(key, manifest) ==
    UNION {{<<i, j>> : j \in 1..Len(manifest.datatypes[i].Files)} :
            i \in {k \in 1..Len(manifest.datatypes) : manifest.datatypes[k].Name = key}}

InstallReturned == last.op = "install" /\ last.outcome = "returned"

\* C22: a datatype key is resolved only when it maps to exactly one File
\* Location of the manifest: an install that returned resolved the
\* application datatype and the settings datatype, a pending app update was
\* built from a resolved category; with zero or several File Locations the
\* resolution fails
C22_ResolvedOnlyWhenSingle ==
    /\ InstallReturned =>
            /\ Cardinality(LocationsOf("IQWatchFaces", xml_file)) = 1
            /\ Cardinality(LocationsOf(SettingsDatatypeKey, xml_file)) = 1
    /\ (last.op = "get_apps_updates" /\ last.outcome = "returned"
            /\ apps_updates.list # <<>>) =>
            Cardinality(LocationsOf("IQWatchFaces", xml_file)) = 1

\* the key resolves in the Datatype Table of the device
Resolved(key) == ResolveDatatype(key, datatypes).ok

\* the key resolves to a File Location that declares the direction from-device
FromDevice(key) ==
    /\ Resolved(key)
    /\ ResolveDatatype(key, datatypes).file.TransferDirection = "OutputFromUnit"

InstallKeys == {"IQWatchFaces", SettingsDatatypeKey}

SettingsAvailableFor(has_settings, device_type_id) ==
    /\ ~has_settings.is_none
    /\ device_type_id \in DOMAIN has_settings.dict
    /\ has_settings.dict[device_type_id]

\* the install asked the vendor for the settings form of the application
SettingsFormFetched == \E i \in 1..Len(last.net) : last.net[i] = SettingsFormRequest(last.arg.guid)

\* C24: an install that returned ran the Settings Capture Bridge (fetched
\* the settings form) if and only if the metadata of the installed
\* application declares settings available for the type of this device
C24_BridgeIffSettingsForDevice ==
    InstallReturned =>
        (SettingsFormFetched <=>
            SettingsAvailableFor(apps[Len(apps)].has_settings, ThisDeviceTypeId))

\* ------------------------------------------------------------------------
\* The app list after an install (checked under SpecLocations)
\* ------------------------------------------------------------------------
ManifestGuids == {xml_file.apps[i].StoreId : i \in 1..Len(xml_file.apps)}

MemoryGuids == {apps[i].guid : i \in 1..Len(apps)}

\* C25: after an install that returned, the fragment of the new app is once
\* in the app list of the manifest file, the app is once in the installed-app
\* list, and the GUIDs in memory are the GUIDs of the manifest
C25_InstalledOnceInBoth ==
    InstallReturned =>
        /\ Cardinality({i \in 1..Len(xml_file.apps) :
                            xml_file.apps[i].StoreId = last.arg.guid}) = 1
        /\ Cardinality({i \in 1..Len(apps) : apps[i].guid = last.arg.guid}) = 1
        /\ MemoryGuids = ManifestGuids

\* ------------------------------------------------------------------------
\* Properties of AppUpdate.process (checked under SpecAppProcess)
\* ------------------------------------------------------------------------
\* the binary endpoint delivered a binary to the call
AppDownloaded(arg) == arg.env.version_ok /\ arg.update.app_guid \notin arg.env.app_down

\* C26: an AppUpdate.process that downloaded a binary for an update with an
\* expected size raises the size-mismatch error exactly when the size of the
\* binary is not the expected size plus 520, and then the filesystem, the
\* file of the app included, is as before
C26_SizePlusOverheadOrUntouched ==
    [][last'.op = "app_process" =>
        /\ (AppDownloaded(last'.arg) /\ last'.arg.update.size # NoneInt) =>
                (last'.error = AppSizeMismatchError
                    <=> last'.arg.env.app_binary.length # last'.arg.update.size + 520)
        /\ last'.error = AppSizeMismatchError => files' = files]_vars

\* a binary of exactly the expected size was refused and the file of the app
\* is still the old one
C26_Witness ==
    /\ last.op = "app_process"
    /\ last.error = AppSizeMismatchError
    /\ last.arg.env.app_binary.length = last.arg.update.size
    /\ InstalledAppPath \in DOMAIN files
    /\ files[InstalledAppPath] = InstalledBinary

\* ------------------------------------------------------------------------
\* The path FirmwareUpdate.process writes (checked under SpecProcess)
\* ------------------------------------------------------------------------
\* the path is a path under the device root
UnderDeviceRoot(path) ==
    /\ Len(path) > Len(DeviceRoot)
    /\ SubSeq(path, 1, Len(DeviceRoot)) = DeviceRoot

\* C27: a FirmwareUpdate.process that returned wrote the downloaded bytes to
\* one file, a path under the device root, for every unitFilepath the
\* reconciler derives from the catalog
C27_WrittenUnderDeviceRoot ==
    (last.op = "process" /\ last.outcome = "returned") =>
        /\ Cardinality(last.wrote) = 1
        /\ \A path \in last.wrote :
                /\ UnderDeviceRoot(path)
                /\ files[path] = last.arg.content

\* ------------------------------------------------------------------------
\* Properties of the manifest writes (checked under SpecManifest)
\* ------------------------------------------------------------------------
\* the two manifest files differ at most in the sub-fields named of the
\* entries of one section
SectionFieldsChanged(before, after, section, fields) ==
    /\ DOMAIN after = DOMAIN before
    /\ \A f \in DOMAIN before \ {section} : after[f] = before[f]
    /\ Len(after[section]) = Len(before[section])
    /\ \A i \in 1..Len(before[section]) :
            /\ DOMAIN after[section][i] = DOMAIN before[section][i]
            /\ \A f \in DOMAIN before[section][i] \ fields :
                    after[section][i][f] = before[section][i][f]

\* the file is as before but for one App fragment of that GUID put at the
\* end of the app list
AppInserted(before, after, guid) ==
    /\ DOMAIN after = DOMAIN before
    /\ \A f \in DOMAIN before \ {"apps"} : after[f] = before[f]
    /\ Len(after.apps) = Len(before.apps) + 1
    /\ SubSeq(after.apps, 1, Len(before.apps)) = before.apps
    /\ after.apps[Len(after.apps)].StoreId = guid

\* C28: a call of update_firmwares changes nothing of the manifest file but
\* Major and Minor of UpdateFile entries, a call of update_apps nothing but
\* the Version of App entries, an install nothing but one App fragment it
\* inserts before the closing tag of the app list
C28_OnlyTargetedFragmentChanges ==
    [][/\ last'.op = "update_firmwares" =>
            SectionFieldsChanged(xml_file, xml_file', "update_files", {"Major", "Minor"})
       /\ last'.op = "update_apps" =>
            SectionFieldsChanged(xml_file, xml_file', "apps", {"Version"})
       /\ last'.op = "install" =>
            \/ xml_file' = xml_file
            \/ AppInserted(xml_file, xml_file', last'.arg.guid)]_vars

\* ------------------------------------------------------------------------
\* Properties of the cached pulls (checked under SpecPulls)
\* ------------------------------------------------------------------------
\* C29: a firmware pull leaves the list of the app pull as it is; once the
\* firmware list is cached a call without force_reload returns with that
\* list and without a request; a call with force_reload that returns made
\* one request and the list is the diff of the catalog answered now. The
\* same holds for the app pull with the two lists exchanged.
C29_PullsCachedAndIndependent ==
    [][UNCHANGED <<fw_catalog, app_catalog>> =>
        /\ last'.op = "get_firmwares_updates" =>
                /\ apps_updates' = apps_updates
                /\ (~firmwares_updates.is_none /\ ~last'.arg.force_reload) =>
                        /\ last'.outcome = "returned"
                        /\ last'.net = <<>>
                        /\ firmwares_updates' = firmwares_updates
                /\ (last'.arg.force_reload /\ last'.outcome = "returned") =>
                        /\ last'.net = <<FirmwareCheckRequest>>
                        /\ firmwares_updates' =
                                SomeList(FirmwareDiff(fw_catalog, firmware_versions))
        /\ last'.op = "get_apps_updates" =>
                /\ firmwares_updates' = firmwares_updates
                /\ (~apps_updates.is_none /\ ~last'.arg.force_reload) =>
                        /\ last'.outcome = "returned"
                        /\ last'.net = <<>>
                        /\ apps_updates' = apps_updates
                /\ (last'.arg.force_reload /\ last'.outcome = "returned") =>
                        /\ last'.net = <<AppCheckRequest>>
                        /\ apps_updates' = SomeList(AppDiff(app_catalog, apps, datatypes))]_vars

\* a forced firmware pull has listed the file published now while the app
\* list, pulled before the vendor published, still holds an update that the
\* catalog no longer offers
C29_Witness ==
    /\ last.op = "get_firmwares_updates"
    /\ last.arg.force_reload
    /\ last.outcome = "returned"
    /\ ~firmwares_updates.is_none
    /\ Len(firmwares_updates.list) = 1
    /\ ~apps_updates.is_none
    /\ Len(apps_updates.list) = 1
    /\ app_catalog = <<>>

\* ------------------------------------------------------------------------
\* Properties of the manifest sent to the vendor (checked under SpecScrub)
\* ------------------------------------------------------------------------
\* C30: the GarminDeviceXml that get_firmwares_updates posts holds no Model
\* block, not the Id of the device, no Extensions block and no DataType
\* block, and a device with another Id would post the same text
C30_SentManifestScrubbed ==
    (last.op = "get_firmwares_updates" /\ last.json # <<>>) =>
        LET xml == last.json[1].GarminDeviceXml
        IN  /\ xml.model = <<>>
            /\ xml.id # DeviceId(xml_raw)
            /\ xml.extensions = <<>>
            /\ xml.datatypes = <<>>
            /\ \A id \in DeviceIds : ScrubbedXml([xml_raw EXCEPT !.id = id]) = xml

\* ------------------------------------------------------------------------
\* The version pair of a pending firmware update (checked under SpecFwDiff)
\* ------------------------------------------------------------------------
\* C31: every update of the pending list built by a pull holds the pair
\* major = floor(v), minor = round(v * 100) % 100 of the decimal version v
\* of the candidate it was built from
C31_StoredPairIsDecimalPair ==
    FreshFirmwarePull =>
        \A i \in 1..Len(firmwares_updates.list) :
            LET u == firmwares_updates.list[i]
            IN  \E j \in 1..Len(fw_catalog) :
                    /\ fw_catalog[j].PartNumber = u.part_number
                    /\ fw_catalog[j].Url.Url = u.url
                    /\ u.major = DecimalMajor(fw_catalog[j].SoftwareVersion)
                    /\ u.minor = DecimalMinor(fw_catalog[j].SoftwareVersion)

\* ------------------------------------------------------------------------
\* Properties of the installed-app list (checked under SpecRegistry)
\* ------------------------------------------------------------------------
\* C32: no two entries of the in-memory installed-app list share a GUID
C32_GuidsPairwiseDistinct ==
    \A i, j \in 1..Len(apps) : apps[i].guid = apps[j].guid => i = j

\* an app installed by an earlier call was asked for again and refused, the
\* device having room for it
C32_Witness ==
    /\ last.op = "install"
    /\ last.error = AlreadyInstalledError
    /\ last.arg.guid = "guid-n"
    /\ Len(apps) = 2
    /\ Len(apps) < max_nb_apps
    /\ apps[2].guid = "guid-n"

\* ------------------------------------------------------------------------
\* Properties of the firmware commit (checked under SpecCommit)
\* ------------------------------------------------------------------------
\* the UpdateFile fragments of the manifest file that have the part number
FragmentsOf(part) ==
    {i \in 1..Len(xml_file.update_files) : xml_file.update_files[i].PartNumber = part}

\* the commit of the k-th update the call processed was made
Committed(k) == k < Len(last.processed) \/ last.outcome = "returned"

\* the k-th update the call processed was written to the device and its
\* commit made or refused
CommitReached(k) == Committed(k) \/ last.error = XmlCommitError

\* C33: the commit of a processed firmware update is made, and the version
\* of the fragment rewritten, when exactly one UpdateFile fragment of the
\* manifest has its part number; it is refused when none or several have it
C33_CommitIffOneFragment ==
    last.op = "update_firmwares" =>
        \A k \in 1..Len(last.processed) :
            LET u == last.processed[k]
            IN  CommitReached(k) =>
                    /\ Committed(k) <=> Cardinality(FragmentsOf(u.part_number)) = 1
                    /\ Committed(k) =>
                            \A i \in FragmentsOf(u.part_number) :
                                /\ xml_file.update_files[i].Major = u.major
                                /\ xml_file.update_files[i].Minor = u.minor

\* ------------------------------------------------------------------------
\* Properties of the selections (checked under Spec)
\* ------------------------------------------------------------------------
\* the pending updates of the list whose name is in names, in list order
Named(pending, names) == SelectSeq(pending, LAMBDA u : InList(u.name, names))

\* the pending updates of the list whose name is not in names
NotNamed(pending, names) == SelectSeq(pending, LAMBDA u : ~InList(u.name, names))

\* every name is the name of a pending update
AllPending(pending, names) ==
    \A n \in 1..Len(names) : \E i \in 1..Len(pending) : pending[i].name = names[n]

\* C34: update_firmwares(names=L), every process call and commit it makes
\* succeeding, applies the pending firmware updates named in L once each,
\* removes exactly those from the pending firmware list, returns their
\* paths and leaves the pending app updates as they were
C34_NamedFirmwaresApplied ==
    (/\ last.op = "update_firmwares"
     /\ last.arg.ids.is_none
     /\ ~last.arg.names.is_none
     /\ AllPending(last.pending.firmwares, last.arg.names.list)
     /\ last.applied = last.processed)
    => /\ last.outcome = "returned"
       /\ last.processed = Named(last.pending.firmwares, last.arg.names.list)
       /\ Len(last.paths) = Len(last.processed)
       /\ firmwares_updates.list = NotNamed(last.pending.firmwares, last.arg.names.list)
       /\ apps_updates.list = last.pending.apps

\* ------------------------------------------------------------------------
\* Properties of the selections by index (checked under SpecIds)
\* ------------------------------------------------------------------------
\* the pending list the ids of the last call index
IndexedPending ==
    IF last.op = "update_firmwares" THEN last.pending.firmwares
    ELSE IF last.op = "update_apps" THEN last.pending.apps
    ELSE last.pending.firmwares \o last.pending.apps

\* what is pending after the last call, in the same order
StillPending ==
    IF last.op = "update_firmwares" THEN firmwares_updates.list
    ELSE IF last.op = "update_apps" THEN apps_updates.list
    ELSE firmwares_updates.list \o apps_updates.list

\* the list without the items at the (0-based) indexes
RECURSIVE WithoutIds(_, _, _)
WithoutIds(list, i, ids) ==
    IF i > Len(list) THEN <<>>
    ELSE (IF (i - 1) \in ids THEN <<>> ELSE <<list[i]>>) \o WithoutIds(list, i + 1, ids)

\* C35: an update call given a list of distinct valid indexes, every
\* endpoint answering, applies exactly the items that stood at those
\* indexes of the pending list when the call began and removes exactly
\* those from the pending list
C35_IndexedItemsApplied ==
    (/\ last.op \in {"update_firmwares", "update_apps", "update"}
     /\ ~last.arg.ids.is_none
     /\ \A k \in 1..Len(last.arg.ids.list) : last.arg.ids.list[k] < Len(IndexedPending))
    => /\ last.outcome = "returned"
       /\ Len(last.processed) = Len(last.arg.ids.list)
       /\ Range(last.processed)
            = {IndexedPending[last.arg.ids.list[k] + 1] : k \in 1..Len(last.arg.ids.list)}
       /\ last.applied = last.processed
       /\ StillPending = WithoutIds(IndexedPending, 1, Range(last.arg.ids.list))

\* ------------------------------------------------------------------------
\* Properties of the selections of apps by name (checked under SpecNames)
\* ------------------------------------------------------------------------
\* C36: update_apps(names=L), every name pending and every endpoint
\* answering, returns after applying the pending app updates named in L
\* once each, and the pending app list is then the list of the beginning
\* of the call without the applied updates
C36_NamedAppsApplied ==
    (/\ last.op = "update_apps"
     /\ last.arg.ids.is_none
     /\ ~last.arg.names.is_none
     /\ AllPending(last.pending.apps, last.arg.names.list))
    => /\ last.outcome = "returned"
       /\ last.processed = Named(last.pending.apps, last.arg.names.list)
       /\ last.applied = last.processed
       /\ apps_updates.list = NotNamed(last.pending.apps, last.arg.names.list)

\* ------------------------------------------------------------------------
\* Properties of the order of process and commit (checked under Spec)
\* ------------------------------------------------------------------------
\* the process call the update call made for the item returned: its file
\* is among the files the call wrote
ProcessReturned(call, u) == PathJoin(DeviceRoot, u.unit_filepath) \in call.wrote

\* C37: an update call changes the recorded version of a firmware part or
\* of an app in the manifest only when it has processed an update of that
\* item and the process call returned; a call whose process call fails
\* before anything was written leaves the manifest file as it was
C37_RewrittenOnlyAfterProcess ==
    [][last'.op \in {"update_firmwares", "update_apps", "update"} =>
            /\ Len(xml_file'.update_files) = Len(xml_file.update_files)
            /\ Len(xml_file'.apps) = Len(xml_file.apps)
            /\ \A i \in 1..Len(xml_file.update_files) :
                    xml_file'.update_files[i] # xml_file.update_files[i] =>
                        \E k \in 1..Len(last'.processed) :
                            /\ "part_number" \in DOMAIN last'.processed[k]
                            /\ last'.processed[k].part_number = xml_file.update_files[i].PartNumber
                            /\ ProcessReturned(last', last'.processed[k])
            /\ \A i \in 1..Len(xml_file.apps) :
                    xml_file'.apps[i] # xml_file.apps[i] =>
                        \E k \in 1..Len(last'.processed) :
                            /\ "app_guid" \in DOMAIN last'.processed[k]
                            /\ last'.processed[k].app_guid = xml_file.apps[i].StoreId
                            /\ ProcessReturned(last', last'.processed[k])
            /\ (last'.outcome = "raised" /\ last'.wrote = {}) => xml_file' = xml_file]_vars

\* the second firmware file in installation order could not be downloaded:
\* the first is recorded at the offered version, the second as it was
C37_Witness ==
    /\ last.op = "update_firmwares"
    /\ last.outcome = "raised"
    /\ last.error = FirmwareDownloadError
    /\ Len(last.processed) = 2
    /\ Len(last.applied) = 1
    /\ last.processed[2].part_number = FirmwareParts[1]
    /\ xml_file.update_files[1] = [PartNumber |-> FirmwareParts[1], Major |-> 1, Minor |-> 0]
    /\ xml_file.update_files[2] = [PartNumber |-> FirmwareParts[2], Major |-> 1, Minor |-> 1]

\* ------------------------------------------------------------------------
\* Properties of the commit of pending updates (checked under SpecCommit)
\* ------------------------------------------------------------------------
\* C38: when every process call of update_firmwares has returned, no commit
\* has failed, and the call that selects every pending update returns
C38_ProcessedThenCommitted ==
    (/\ last.op = "update_firmwares"
     /\ \A k \in 1..Len(last.processed) : ProcessReturned(last, last.processed[k]))
    => /\ last.error # XmlCommitError
       /\ (last.arg.ids.is_none /\ last.arg.names.is_none) => last.outcome = "returned"

\* ------------------------------------------------------------------------
\* Properties of the pulls that fail (checked under SpecFailedPulls)
\* ------------------------------------------------------------------------
\* C39: a pull that raises leaves both cached pending lists as they were
C39_FailedPullKeepsCache ==
    [][(last'.op \in {"get_firmwares_updates", "get_apps_updates"} /\ last'.outcome = "raised")
            => /\ firmwares_updates' = firmwares_updates
               /\ apps_updates' = apps_updates]_vars

\* ------------------------------------------------------------------------
\* Properties of the files of a failed install (checked under SpecInstall)
\* ------------------------------------------------------------------------
\* C40: an install that raises leaves the files of the device as they
\* were before the call
C40_FailedInstallLeavesNoFile ==
    [][(last'.op = "install" /\ last'.outcome = "raised") => files' = files]_vars

====
